---- MODULE Spec2Model ----
(***************************************************************************)
(* Conflict scoring and escalation/simulation engine of the conflict       *)
(* intelligence platform: MLService (oracle adapter, bias and passive      *)
(* aggression detectors), ConflictAnalyzer (turn scoring, conversation     *)
(* analysis) and SimulationService (opponent model, response simulation).  *)
(*                                                                         *)
(* Numbers: Python floats are modelled as exact rationals [n, d]; oracle   *)
(* scores are given in percent.  A text is the sequence of its tokens: a   *)
(* token is a maximal run of word characters or one non-word character,    *)
(* so a regex word boundary \b falls exactly between tokens.               *)
(***************************************************************************)
EXTENDS Integers, Sequences, FiniteSets, TLC

VARIABLES
    ml,         \* MLService handles: sentiment_analyzer, emotion_analyzer, nlp
    initpc,     \* position of MLService.initialize
    app,        \* app.state.conflict_analyzer: "None" or "set"
    weights,    \* ConflictAnalyzer.weights, in percent
    attempt,    \* failed attempts of the model load under way
    conns,      \* the websocket manager's registry and the sockets
    store,      \* the database: stored turns and opponent models, open requests
    clock,      \* the wall clock read by datetime.utcnow()
    rng,        \* state of the random source (module random)
    oracle,     \* the pretrained models: what they answer to a text
    input,      \* the text under analysis
    turns,      \* the caller's turn sequence (conversation history)
    last,       \* the last operation: its inputs and what it returned or raised
    log         \* an earlier call kept for comparison with a later one

vars ==
    <<ml, initpc, app, weights, attempt, conns, store, clock, rng, oracle, input, turns,
      last, log>>

----------------------------------------------------------------------------
(* Bounds *)

\* texts are joins of at most MaxPhrases phrases of the vocabulary
MaxPhrases == 2
\* the longest history a session stores
MaxTurns == 1
\* the last reading of the clock
MaxClock == 1
\* the largest seed given to the random source
MaxSeed == 1
\* the longest sequence of given conflict scores
MaxScored == 5
\* how far, in tenths, a given score is from the one before
MaxStep == 1
\* the longest sequence of given turns
MaxGiven == 4
\* the largest count of a linguistic feature handed over
MaxCount == 3
\* the longest history of opponent turns handed over
MaxHistory == 6
\* the longest conversation history handed to a simulation
MaxSim == 2
\* the websocket connections opened
MaxSockets == 2
\* the turns a session stores in the database
MaxStored == 2

----------------------------------------------------------------------------
(* State outside the services *)

\* the client_id values of websocket paths
ClientIds == {"a", "b"}
Sockets == 1..MaxSockets

\* manager.active_connections empty and no socket opened yet; delivered holds,
\* for every message sent, the socket its text came from and the socket it
\* was sent on
NoConns ==
    [active |-> [c \in ClientIds |-> 0],
     sock |-> [s \in Sockets |-> [client |-> "none", state |-> "new"]],
     delivered |-> {}]

\* the add_turn requests that may be under way at once
Requests == {1, 2}

\* empty tables and no request under way
NoStore ==
    [turns |-> <<>>, models |-> <<>>,
     reqs |-> [q \in Requests |-> [pc |-> "idle", turn_count |-> 0]]]

----------------------------------------------------------------------------
(* Exact rationals standing for floats *)

Abs(x) == IF x < 0 THEN -x ELSE x

RECURSIVE GCD(_, _)
GCD(a, b) == IF b = 0 THEN a ELSE GCD(b, a % b)

R(n, d) ==
    LET g == GCD(Abs(n), d)
    IN  [n |-> n \div g, d |-> d \div g]

Zero == R(0, 1)
Unit == R(1, 1)
Pct(p) == R(p, 100)

RAdd(a, b) ==
    LET g == GCD(a.d, b.d)
    IN  R(a.n * (b.d \div g) + b.n * (a.d \div g), (a.d \div g) * b.d)
RSub(a, b) == RAdd(a, [n |-> 0 - b.n, d |-> b.d])
RMul(a, b) == R(a.n * b.n, a.d * b.d)
RDivInt(a, k) == R(a.n, a.d * k)
RLt(a, b) == a.n * b.d < b.n * a.d
RLe(a, b) == a.n * b.d <= b.n * a.d
RMin(a, b) == IF RLt(b, a) THEN b ELSE a
RMax(a, b) == IF RLt(a, b) THEN b ELSE a

RECURSIVE RSum(_)
RSum(s) == IF s = <<>> THEN Zero ELSE RAdd(s[1], RSum(Tail(s)))

\* the element of a one-element set; The({e(x) : x \in {v}}) is e of the
\* value v, with v worked out once
The(S) == CHOOSE x \in S : TRUE

\* np.mean of a non-empty list
RMean(s) == RDivInt(RSum(s), Len(s))

----------------------------------------------------------------------------
(* Texts *)

\* str.lower() on one token
LowerTok(t) ==
    CASE t = "Are" -> "are"
      [] t = "Can" -> "can"
      [] t = "Do" -> "do"
      [] t = "Fine" -> "fine"
      [] t = "Here" -> "here"
      [] t = "I" -> "i"
      [] t = "If" -> "if"
      [] t = "It" -> "it"
      [] t = "Let" -> "let"
      [] t = "My" -> "my"
      [] t = "Okay" -> "okay"
      [] t = "Sorry" -> "sorry"
      [] t = "Sure" -> "sure"
      [] t = "That" -> "that"
      [] t = "This" -> "this"
      [] t = "Well" -> "well"
      [] t = "Whatever" -> "whatever"
      [] t = "You" -> "you"
      [] OTHER -> t

Lower(text) == [i \in 1..Len(text) |-> LowerTok(text[i])]

\* tokens that are not word characters
NonWord == {" ", ".", ",", "!", "?", "'", "\n", "\t"}
\* whitespace characters removed by str.strip()
WhiteSpace == {" ", "\n", "\t"}

IsBlank(text) == \A i \in 1..Len(text) : text[i] \in WhiteSpace

\* the phrase ph (word tokens at both ends) occurs at position i of tl
PhraseAt(tl, ph, i) ==
    /\ tl[i] = ph[1]
    /\ i + Len(ph) - 1 <= Len(tl)
    /\ \A j \in 2..Len(ph) : tl[i + j - 1] = ph[j]

\* re.search(r"\bph\b", tl)
HasPhrase(tl, ph) == \E i \in 1..Len(tl) : PhraseAt(tl, ph, i)

\* the literal substring sub occurs in the text ("sub" in text)
HasLiteral(text, sub) == \E i \in 1..Len(text) : PhraseAt(text, sub, i)

\* what \.?$ accepts after the match: an optional full stop, then the end of
\* the string or the newline that ends it
EndTails == {<<>>, <<".">>, <<"\n">>, <<".", "\n">>}

\* re.search(r"\bph\b\.?$", tl)
HasPhraseAtEnd(tl, ph) ==
    \E i \in 1..Len(tl) :
        /\ PhraseAt(tl, ph, i)
        /\ SubSeq(tl, i + Len(ph), Len(tl)) \in EndTails

\* re.search(r"\bph\b.*\bthen\b", tl): the dot does not match a newline
HasPhraseThenWord(tl, ph, then) ==
    \E i \in 1..Len(tl) :
        /\ PhraseAt(tl, ph, i)
        /\ \E k \in (i + Len(ph))..Len(tl) :
              /\ tl[k] = then
              /\ \A m \in (i + Len(ph))..(k - 1) : tl[m] # "\n"

TextBias ==
    <<"You", " ", "always", " ", "ruin", " ", "everything", " ", "and", " ",
      "it", "'", "s", " ", "your", " ", "fault">>
TextPassive == <<"Sure", ",", " ", "whatever", ".", " ", "Fine", ".">>

\* the phrases texts are made of
Vocabulary ==
    << TextBias,
       TextPassive,
       <<"do", " ", "what", " ", "you", " ", "want">>,
       <<"you", "'", "re", " ", "crazy", ".", ".", ".">>,
       <<"that", " ", "never", " ", "happened", "!", "!">> >>

RECURSIVE Join(_)
Join(ps) ==
    IF ps = <<>> THEN <<>>
    ELSE IF Len(ps) = 1 THEN Vocabulary[ps[1]]
    ELSE Vocabulary[ps[1]] \o <<" ">> \o Join(Tail(ps))

PhraseSeqs == UNION {[1..k -> 1..Len(Vocabulary)] : k \in 0..MaxPhrases}
Texts == {Join(ps) : ps \in PhraseSeqs}

----------------------------------------------------------------------------
(* MLService: pattern detectors *)

Tag(type, description, severity) ==
    [type |-> type, description |-> description, severity |-> severity]

overgeneralization_patterns ==
    {<<"always">>, <<"never">>, <<"everyone">>, <<"no", " ", "one">>,
     <<"every", " ", "time">>, <<"all", " ", "the", " ", "time">>}

mind_reading_patterns ==
    {<<"you", " ", "think">>, <<"you", " ", "believe">>,
     <<"you", " ", "want", " ", "to">>,
     <<"you", "'", "re", " ", "trying", " ", "to">>,
     <<"you", " ", "just", " ", "want">>}

catastrophizing_patterns ==
    {<<"ruined">>, <<"destroyed">>, <<"terrible">>, <<"awful">>,
     <<"disaster">>, <<"catastrophe">>}

personalization_patterns ==
    {<<"you", " ", "make", " ", "me">>, <<"you", " ", "caused">>,
     <<"your", " ", "fault">>}

gaslighting_patterns ==
    {<<"you", "'", "re", " ", "overreacting">>,
     <<"you", "'", "re", " ", "too", " ", "sensitive">>,
     <<"that", " ", "never", " ", "happened">>,
     <<"you", "'", "re", " ", "imagining", " ", "things">>,
     <<"you", "'", "re", " ", "crazy">>}

\* the five categories in the order the code tests them
BiasCategories ==
    << [patterns |-> overgeneralization_patterns,
        tag |-> Tag("overgeneralization",
                    "Using absolute terms (always, never, everyone)", "medium")],
       [patterns |-> mind_reading_patterns,
        tag |-> Tag("mind_reading",
                    "Assuming to know other's thoughts or intentions", "medium")],
       [patterns |-> catastrophizing_patterns,
        tag |-> Tag("catastrophizing", "Exaggerating negative outcomes", "high")],
       [patterns |-> personalization_patterns,
        tag |-> Tag("personalization",
                    "Attributing responsibility to others unfairly", "high")],
       [patterns |-> gaslighting_patterns,
        tag |-> Tag("gaslighting",
                    "Attempting to make the other doubt their perception",
                    "critical")] >>

\* variant: catastrophizing also fires on the stem "ruin"
CategoryFiresStem(tl, c) ==
    \/ \E p \in c.patterns : HasPhrase(tl, p)
    \/ c.tag.type = "catastrophizing" /\ HasPhrase(tl, <<"ruin">>)

\* a category fires when any of its patterns is found in the lowered text
CategoryFires(tl, c) == \E p \in c.patterns : HasPhrase(tl, p)

\* variant: a tag is appended for every pattern that matches
RECURSIVE BiasScanPerPattern(_, _)
BiasScanPerPattern(tl, k) ==
    IF k > Len(BiasCategories) THEN <<>>
    ELSE [i \in 1..Cardinality({p \in BiasCategories[k].patterns : HasPhrase(tl, p)})
             |-> BiasCategories[k].tag]
         \o BiasScanPerPattern(tl, k + 1)

RECURSIVE BiasScan(_, _)
BiasScan(tl, k) ==
    IF k > Len(BiasCategories) THEN <<>>
    ELSE (IF CategoryFires(tl, BiasCategories[k])
          THEN <<BiasCategories[k].tag>> ELSE <<>>) \o BiasScan(tl, k + 1)

detect_cognitive_biases(text) == BiasScan(Lower(text), 1)

\* the rule table of detect_passive_aggression, in order; weights in tenths
passive_aggressive_patterns ==
    << [kind |-> "end",   ph |-> <<"sure">>, w |-> 3],
       [kind |-> "plain", ph |-> <<"whatever">>, w |-> 4],
       [kind |-> "plain", ph |-> <<"do", " ", "what", " ", "you", " ", "want">>, w |-> 5],
       [kind |-> "plain", ph |-> <<"if", " ", "you", " ", "say", " ", "so">>, w |-> 4],
       [kind |-> "end",   ph |-> <<"fine">>, w |-> 3],
       [kind |-> "plain", ph |-> <<"i", " ", "guess">>, w |-> 2],
       [kind |-> "then",  ph |-> <<"no", " ", "worries">>, w |-> 4],
       [kind |-> "plain", ph |-> <<"sorry", " ", "you", " ", "feel", " ", "that", " ", "way">>, w |-> 5],
       [kind |-> "plain", ph |-> <<"must", " ", "be", " ", "nice">>, w |-> 4],
       [kind |-> "plain", ph |-> <<"good", " ", "for", " ", "you">>, w |-> 3] >>

\* variant: the end anchor $ of "sure" and "fine" is dropped
PatternMatchesAnywhere(tl, p) ==
    IF p.kind = "then" THEN HasPhraseThenWord(tl, p.ph, "but")
    ELSE HasPhrase(tl, p.ph)

\* re.search(pattern, text_lower) for one row of the table
PatternMatches(tl, p) ==
    CASE p.kind = "end"  -> HasPhraseAtEnd(tl, p.ph)
      [] p.kind = "then" -> HasPhraseThenWord(tl, p.ph, "but")
      [] OTHER           -> HasPhrase(tl, p.ph)

\* the patterns of the table that match the text, as indices
MatchedPatterns(text) ==
    {k \in 1..Len(passive_aggressive_patterns) :
        PatternMatches(Lower(text), passive_aggressive_patterns[k])}

\* variant: the largest matching weight instead of their sum
RECURSIVE PatternMax(_, _)
PatternMax(tl, k) ==
    IF k > Len(passive_aggressive_patterns) THEN Zero
    ELSE RMax(IF PatternMatches(tl, passive_aggressive_patterns[k])
              THEN R(passive_aggressive_patterns[k].w, 10) ELSE Zero,
              PatternMax(tl, k + 1))

RECURSIVE PatternSum(_, _)
PatternSum(tl, k) ==
    IF k > Len(passive_aggressive_patterns) THEN Zero
    ELSE RAdd(IF PatternMatches(tl, passive_aggressive_patterns[k])
              THEN R(passive_aggressive_patterns[k].w, 10) ELSE Zero,
              PatternSum(tl, k + 1))

SarcasmBonus(text) ==
    IF HasLiteral(text, <<".", ".", ".">>) \/ HasLiteral(text, <<"!", "!">>)
    THEN R(1, 10) ELSE Zero

\* emotions["emotions"].get(name, 0)
RECURSIVE DictGet(_, _, _)
DictGet(d, k, default) ==
    IF d = <<>> THEN default
    ELSE IF d[1].label = k THEN d[1].score
    ELSE DictGet(Tail(d), k, default)

EmotionBonus(em) ==
    IF RLt(em.aggression_score, R(3, 10))
       /\ RLt(R(3, 10), DictGet(em.emotions, "disgust", Zero))
    THEN R(2, 10) ELSE Zero

\* the score before the cap, given the analyze_emotions result em for the text
PassiveAggressionRaw(text, em) ==
    RAdd(RAdd(PatternSum(Lower(text), 1), SarcasmBonus(text)), EmotionBonus(em))

detect_passive_aggression(text, em) == RMin(PassiveAggressionRaw(text, em), Unit)

\* extract_linguistic_features: the counts the engine reads
CountTok(tl, t) == Cardinality({i \in 1..Len(tl) : tl[i] = t})

LinguisticFeatures(text) ==
    [you_statements |-> CountTok(Lower(text), "you"),
     i_statements   |-> CountTok(Lower(text), "i"),
     question_count |-> CountTok(text, "?"),
     word_count     |-> Cardinality({i \in 1..Len(text) : text[i] \notin NonWord})]

----------------------------------------------------------------------------
(* MLService: the oracle adapter *)

NotInitialized == "RuntimeError: MLService not initialized"
Unexpected == "RuntimeError: Unexpected response from sentiment analyzer"

Ok(v, calls) == [ok |-> TRUE, err |-> "", val |-> v, calls |-> calls]
Raise(e, v, calls) == [ok |-> FALSE, err |-> e, val |-> v, calls |-> calls]

NoSentiment == [label |-> "", score |-> Zero, polarity |-> Zero]
NoEmotions == [emotions |-> <<>>, aggression_score |-> Zero, dominant_emotion |-> ""]
\* the fallback value of analyze_emotions
FallbackEmotions ==
    [emotions |-> <<>>, aggression_score |-> Zero, dominant_emotion |-> "neutral"]

\* Raw outputs of the sentiment pipeline.  shape: what the call returned;
\* is_dict: whether the record taken from it is a dict; label "" = no
\* "label" key; score_state: "ok", "missing" (no key) or "bad" (float() fails)
SRaw(shape, is_dict, label, score, score_state) ==
    [shape |-> shape, is_dict |-> is_dict, label |-> label, score |-> score,
     score_state |-> score_state]

SentimentOutputs ==
    { SRaw("list", TRUE, "POSITIVE", 99, "ok"),
      SRaw("list", TRUE, "NEGATIVE", 80, "ok"),
      SRaw("dict", TRUE, "NEGATIVE", 60, "ok"),
      SRaw("dict", TRUE, "POSITIVE", 55, "ok"),
      SRaw("empty_list", FALSE, "", 0, "missing"),
      SRaw("list", FALSE, "", 0, "missing"),
      SRaw("scalar", FALSE, "", 0, "missing"),
      SRaw("list", TRUE, "", 70, "ok"),
      SRaw("list", TRUE, "NEGATIVE", 0, "bad"),
      SRaw("list", TRUE, "POSITIVE", 0, "missing") }

\* outputs that satisfy the label/score contract
SentimentWellFormed(raw) ==
    /\ raw.shape \in {"list", "dict"}
    /\ raw.is_dict
    /\ raw.label \in {"POSITIVE", "NEGATIVE"}
    /\ raw.score_state = "ok"

\* MLService.analyze_sentiment; results[0] of a non-empty list, else the
\* result itself, must be a dict
analyze_sentiment(handle, raw) ==
    IF handle = "None" THEN Raise(NotInitialized, NoSentiment, 0)
    ELSE IF ~raw.is_dict THEN Raise(Unexpected, NoSentiment, 1)
    ELSE IF raw.label = "" THEN Raise("KeyError: 'label'", NoSentiment, 1)
    ELSE IF raw.score_state = "missing" THEN Raise("KeyError: 'score'", NoSentiment, 1)
    ELSE IF raw.score_state = "bad" THEN Raise("ValueError: float()", NoSentiment, 1)
    ELSE Ok([label |-> raw.label, score |-> Pct(raw.score),
             polarity |-> IF raw.label = "POSITIVE" THEN Unit ELSE R(-1, 1)], 1)

\* Raw outputs of the emotion pipeline.  shape: "falsy" (None, [], {}),
\* "list", "single" (dict with label and score), "mapping" (dict label ->
\* score), "tuple" (another iterable), "scalar" (not iterable).  An item is a
\* dict ("dict"), a 2-sequence ("pair") or something else ("other").
Item(kind, label, score, score_state) ==
    [kind |-> kind, label |-> label, score |-> score, score_state |-> score_state]

ERaw(shape, items) == [shape |-> shape, items |-> items]

EmotionOutputs ==
    { ERaw("falsy", <<>>),
      ERaw("list", << Item("dict", "anger", 10, "ok"), Item("dict", "disgust", 50, "ok"),
                      Item("dict", "joy", 40, "ok") >>),
      ERaw("list", << Item("dict", "joy", 5, "ok"), Item("dict", "anger", 90, "ok"),
                      Item("dict", "disgust", 5, "ok") >>),
      ERaw("list", << Item("dict", "anger", 30, "ok"), Item("dict", "disgust", 31, "ok"),
                      Item("dict", "sadness", 31, "ok") >>),
      ERaw("list", << Item("dict", "anger", 100, "ok") >>),
      ERaw("list", << Item("dict", "anger", 0, "bad"), Item("dict", "joy", 0, "bad") >>),
      ERaw("list", << Item("dict", "anger", 0, "bad"), Item("dict", "disgust", 60, "ok") >>),
      ERaw("list", << Item("dict", "anger", 0, "missing"), Item("dict", "fear", 20, "ok") >>),
      ERaw("list", << Item("dict", "", 80, "ok"), Item("dict", "anger", 80, "ok") >>),
      ERaw("list", << Item("other", "", 0, "missing") >>),
      ERaw("single", << Item("dict", "anger", 70, "ok") >>),
      ERaw("single", << Item("dict", "anger", 0, "bad") >>),
      ERaw("mapping", << Item("pair", "Anger", 20, "ok"), Item("pair", "disgust", 60, "ok") >>),
      ERaw("mapping", << Item("pair", "anger", 0, "bad") >>),
      ERaw("tuple", << Item("pair", "anger", 50, "ok"), Item("pair", "joy", 50, "ok") >>),
      ERaw("tuple", << Item("pair", "joy", 40, "ok"), Item("pair", "anger", 0, "bad"),
                       Item("pair", "disgust", 90, "ok") >>),
      ERaw("scalar", <<>>) }

\* an output the adapter can normalise into the label -> score contract:
\* a known shape, at least one entry, every entry convertible
EmotionWellFormed(raw) ==
    /\ raw.shape \in {"list", "single", "mapping"}
    /\ raw.items # <<>>
    /\ \A i \in 1..Len(raw.items) :
          /\ raw.items[i].label # ""
          /\ raw.items[i].score_state = "ok"
          /\ raw.shape = "list" => raw.items[i].kind = "dict"

\* emotion_dict[k] = v: a dict keeps the position of a key it already holds
RECURSIVE DictSet(_, _, _)
DictSet(d, k, v) ==
    IF d = <<>> THEN << [label |-> k, score |-> v] >>
    ELSE IF d[1].label = k THEN << [label |-> k, score |-> v] >> \o Tail(d)
    ELSE << d[1] >> \o DictSet(Tail(d), k, v)

DictHas(d, k) == \E i \in 1..Len(d) : d[i].label = k

\* list of dicts: a malformed entry is skipped, a missing score reads 0.0
RECURSIVE FromList(_, _)
FromList(items, d) ==
    IF items = <<>> THEN d
    ELSE FromList(Tail(items),
                  CASE items[1].score_state = "bad" -> d
                    [] items[1].score_state = "missing" -> DictSet(d, items[1].label, Zero)
                    [] OTHER -> DictSet(d, items[1].label, Pct(items[1].score)))

\* dict label -> score: a value that float() rejects is skipped
RECURSIVE FromMapping(_, _)
FromMapping(items, d) ==
    IF items = <<>> THEN d
    ELSE FromMapping(Tail(items),
                     IF items[1].score_state = "ok"
                     THEN DictSet(d, items[1].label, Pct(items[1].score)) ELSE d)

\* best-effort coercion: 2-sequences are taken, other items passed over, and
\* the first float() failure ends the loop (the try encloses the for)
RECURSIVE FromPairs(_, _)
FromPairs(items, d) ==
    IF items = <<>> THEN d
    ELSE IF items[1].kind # "pair" THEN FromPairs(Tail(items), d)
    ELSE IF items[1].score_state # "ok" THEN d
    ELSE FromPairs(Tail(items), DictSet(d, items[1].label, Pct(items[1].score)))

\* max(emotion_dict.items(), key=value)[0]: the first entry of maximal score
Dominant(d) ==
    LET i == CHOOSE i \in 1..Len(d) :
                /\ \A j \in 1..Len(d) : RLe(d[j].score, d[i].score)
                /\ \A j \in 1..(i - 1) : RLt(d[j].score, d[i].score)
    IN  d[i].label

EmotionResult(d) ==
    [emotions |-> d,
     aggression_score |-> DictGet(d, "anger", DictGet(d, "Anger", Zero)),
     dominant_emotion |-> Dominant(d)]

IsListOfLabelled(raw) ==
    /\ raw.shape = "list"
    /\ \A i \in 1..Len(raw.items) : raw.items[i].kind = "dict" /\ raw.items[i].label # ""

\* the emotion_dict built from the raw output (lines 133-164)
NormalizeEmotions(raw) ==
    CASE IsListOfLabelled(raw) -> FromList(raw.items, <<>>)
      [] raw.shape = "mapping" -> FromMapping(raw.items, <<>>)
      [] raw.shape \in {"list", "tuple"} -> FromPairs(raw.items, <<>>)
      [] OTHER -> <<>>

\* MLService.analyze_emotions
analyze_emotions(handle, raw) ==
    IF handle = "None" THEN Raise(NotInitialized, NoEmotions, 0)
    ELSE IF raw.shape = "falsy" THEN Ok(FallbackEmotions, 1)
    ELSE IF raw.shape = "single" /\ raw.items[1].score_state # "ok"
         THEN Raise("ValueError: float()", NoEmotions, 1)
    ELSE IF raw.shape = "single"
         THEN Ok(EmotionResult(DictSet(<<>>, raw.items[1].label, Pct(raw.items[1].score))), 1)
    ELSE IF NormalizeEmotions(raw) = <<>> THEN Ok(FallbackEmotions, 1)
    ELSE Ok(EmotionResult(NormalizeEmotions(raw)), 1)

NoFeatures == [you_statements |-> 0, i_statements |-> 0, question_count |-> 0,
               word_count |-> 0]

\* variant: the nlp handle is not checked
extract_linguistic_features_unchecked(handle, text) == Ok(LinguisticFeatures(text), 1)

\* MLService.extract_linguistic_features
extract_linguistic_features(handle, text) ==
    IF handle = "None" THEN Raise(NotInitialized, NoFeatures, 0)
    ELSE Ok(LinguisticFeatures(text), 1)

\* what the models answer to a text: the oracle is a pair of answer tables
\* indexed by a key of the text
TextKey(text, n) == (Len(text) % n) + 1
SentimentAnswer(o, text) == o.sent[TextKey(text, Len(o.sent))]
EmotionAnswer(o, text) == o.emo[TextKey(text, Len(o.emo))]

----------------------------------------------------------------------------
(* ConflictAnalyzer: one turn *)

CodeWeights ==
    [aggression |-> 35, passive_aggression |-> 25, sentiment_negativity |-> 20,
     bias_severity |-> 20]

\* b.get("severity", "medium"): a tag is a record, with or without the key
TagSeverity(b) == IF "severity" \in DOMAIN b THEN b.severity ELSE "medium"

\* variant: a severity that is not in the map weighs nothing
SeverityWeightStrict(sev) ==
    CASE sev = "low" -> R(2, 10)
      [] sev = "medium" -> R(5, 10)
      [] sev = "high" -> R(8, 10)
      [] sev = "critical" -> R(10, 10)
      [] OTHER -> Zero

\* bias_severity_map.get(sev, 0.5)
SeverityWeight(sev) ==
    CASE sev = "low" -> R(2, 10)
      [] sev = "medium" -> R(5, 10)
      [] sev = "high" -> R(8, 10)
      [] sev = "critical" -> R(10, 10)
      [] OTHER -> R(5, 10)

BiasScore(biases) ==
    IF biases = <<>> THEN Zero
    ELSE RMean([i \in 1..Len(biases) |-> SeverityWeight(TagSeverity(biases[i]))])

\* variant: the sentiment term is not halved
sentiment_negativity_unscaled(polarity) == RSub(Unit, polarity)

sentiment_negativity(polarity) == RDivInt(RSub(Unit, polarity), 2)

\* ConflictAnalyzer._calculate_turn_conflict_score
calculate_turn_conflict_score(w, aggression, passive_aggression, polarity, biases) ==
    RMin(RAdd(RAdd(RMul(Pct(w.aggression), aggression),
                   RMul(Pct(w.passive_aggression), passive_aggression)),
              RAdd(RMul(Pct(w.sentiment_negativity), sentiment_negativity(polarity)),
                   RMul(Pct(w.bias_severity), BiasScore(biases)))),
         Unit)

NoTurn ==
    [speaker |-> "", text |-> <<>>, timestamp |-> 0, sentiment |-> NoSentiment,
     emotions |-> NoEmotions, aggression_score |-> Zero,
     passive_aggression_score |-> Zero, conflict_score |-> Zero,
     bias_tags |-> <<>>, linguistic_features |-> NoFeatures]

\* ConflictAnalyzer.analyze_turn: the calls in the order of the code; the
\* first that raises ends the turn.  detect_passive_aggression asks the
\* emotion model a second time for the same text.
analyze_turn(h, w, o, now, text, speaker) ==
    The({ IF ~s.ok THEN Raise(s.err, NoTurn, s.calls)
          ELSE IF ~e.ok THEN Raise(e.err, NoTurn, s.calls + e.calls)
          ELSE IF ~f.ok THEN Raise(f.err, NoTurn, s.calls + 2 * e.calls + f.calls)
          ELSE The({ Ok([speaker |-> speaker, text |-> text, timestamp |-> now,
                         sentiment |-> s.val, emotions |-> e.val,
                         aggression_score |-> e.val.aggression_score,
                         passive_aggression_score |-> pa,
                         conflict_score |->
                             calculate_turn_conflict_score(
                                 w, e.val.aggression_score, pa, s.val.polarity, b),
                         bias_tags |-> b, linguistic_features |-> f.val],
                        s.calls + 2 * e.calls + f.calls)
                     : pa \in {detect_passive_aggression(text, e.val)},
                       b \in {detect_cognitive_biases(text)} })
          : s \in {analyze_sentiment(h.sentiment_analyzer, SentimentAnswer(o, text))},
            e \in {analyze_emotions(h.emotion_analyzer, EmotionAnswer(o, text))},
            f \in {extract_linguistic_features(h.nlp, text)} })

----------------------------------------------------------------------------
(* Service life cycle and the entry points that score one text *)

NoHandles == [sentiment_analyzer |-> "None", emotion_analyzer |-> "None", nlp |-> "None"]
AllHandles == [sentiment_analyzer |-> "loaded", emotion_analyzer |-> "loaded",
               nlp |-> "loaded"]

Ready(h) == h = AllHandles

NoOut == [none |-> TRUE]
NoCall == [op |-> "none", h |-> NoHandles, kind |-> "none", err |-> "", calls |-> 0,
           text |-> <<>>, out |-> NoOut]

Call(op, h, text, r) ==
    [op |-> op, h |-> h, kind |-> IF r.ok THEN "ok" ELSE "error", err |-> r.err,
     calls |-> r.calls, text |-> text, out |-> IF r.ok THEN r.val ELSE NoOut]

\* with_retries(fn, retries=3), and range(1, 4) of the spaCy loop
retries == 3

\* MLService.initialize loads the sentiment model, the emotion model and spaCy
\* in this order, each in at most retries attempts; an attempt that succeeds
\* sets the handle and ends the attempts for this model
LoadNext ==
    /\ initpc \in {"new", "sentiment", "emotion"}
    /\ attempt < retries
    /\ ml' = CASE initpc = "new" -> [ml EXCEPT !.sentiment_analyzer = "loaded"]
               [] initpc = "sentiment" -> [ml EXCEPT !.emotion_analyzer = "loaded"]
               [] OTHER -> [ml EXCEPT !.nlp = "loaded"]
    /\ initpc' = CASE initpc = "new" -> "sentiment"
                   [] initpc = "sentiment" -> "emotion"
                   [] OTHER -> "done"
    /\ attempt' = 0
    /\ UNCHANGED <<app, weights, conns, store, clock, rng, oracle, input, turns, last, log>>

\* an attempt that is not the last one fails: the exception is logged and,
\* after the sleep, the loader is called again
LoadRetry ==
    /\ initpc \in {"new", "sentiment", "emotion"}
    /\ attempt + 1 < retries
    /\ attempt' = attempt + 1
    /\ UNCHANGED <<ml, initpc, app, weights, conns, store, clock, rng, oracle, input,
                   turns, last, log>>

\* variant: after the last failed attempt initialize goes on to the next model
LoadFailsSilently ==
    /\ initpc \in {"new", "sentiment", "emotion"}
    /\ attempt + 1 = retries
    /\ initpc' = CASE initpc = "new" -> "sentiment"
                   [] initpc = "sentiment" -> "emotion"
                   [] OTHER -> "done"
    /\ attempt' = 0
    /\ UNCHANGED <<ml, app, weights, conns, store, clock, rng, oracle, input, turns,
                   last, log>>

\* the last attempt fails: RuntimeError is raised out of initialize; the
\* handles loaded so far stay, the others stay None
LoadFails ==
    /\ initpc \in {"new", "sentiment", "emotion"}
    /\ attempt + 1 = retries
    /\ initpc' = "failed"
    /\ attempt' = attempt + 1
    /\ UNCHANGED <<ml, app, weights, conns, store, clock, rng, oracle, input, turns,
                   last, log>>

\* lifespan: after initialize returns, the analyzer is put on app.state
Publish ==
    /\ initpc = "done"
    /\ app = "None"
    /\ app' = "set"
    /\ UNCHANGED <<ml, initpc, weights, attempt, conns, store,
                   clock, rng, oracle, input, turns, last, log>>

Frame == UNCHANGED <<ml, initpc, app, weights, attempt, conns, store,
                     clock, rng, oracle, input, turns, log>>

AnalyzeSentiment ==
    /\ last' = Call("analyze_sentiment", ml, input,
                    analyze_sentiment(ml.sentiment_analyzer, SentimentAnswer(oracle, input)))
    /\ Frame

AnalyzeEmotions ==
    /\ last' = Call("analyze_emotions", ml, input,
                    analyze_emotions(ml.emotion_analyzer, EmotionAnswer(oracle, input)))
    /\ Frame

DetectPassiveAggression ==
    /\ LET e == analyze_emotions(ml.emotion_analyzer, EmotionAnswer(oracle, input))
       IN  last' = Call("detect_passive_aggression", ml, input,
                        IF e.ok THEN Ok([score |-> detect_passive_aggression(input, e.val)],
                                        e.calls)
                        ELSE Raise(e.err, NoOut, e.calls))
    /\ Frame

DetectCognitiveBiases ==
    /\ last' = Call("detect_cognitive_biases", ml, input,
                    Ok([tags |-> detect_cognitive_biases(input)], 0))
    /\ Frame

AnalyzeTurn ==
    /\ last' = Call("analyze_turn", ml, input,
                    analyze_turn(ml, weights, oracle, clock, input, "user"))
    /\ Frame

\* realtime._get_quick_tip
get_quick_tip(conflict_score, analysis) ==
    IF RLt(conflict_score, R(3, 10)) THEN "constructive"
    ELSE IF \E i \in 1..Len(analysis.bias_tags) :
                analysis.bias_tags[i].type = "overgeneralization"
         THEN "avoid always and never"
    ELSE IF \E i \in 1..Len(analysis.bias_tags) :
                analysis.bias_tags[i].type = "mind_reading"
         THEN "ask instead of assuming"
    ELSE IF RLt(R(6, 10), analysis.aggression_score) THEN "high aggression"
    ELSE IF RLt(R(5, 10), analysis.passive_aggression_score) THEN "passive-aggressive"
    ELSE "consider rephrasing"

WarningLevel(conflict_score) ==
    IF RLt(conflict_score, R(3, 10)) THEN "safe"
    ELSE IF RLt(conflict_score, R(6, 10)) THEN "caution"
    ELSE "danger"

Color(level) ==
    CASE level = "safe" -> "green" [] level = "caution" -> "yellow" [] OTHER -> "red"

ScoreResponse(type, a) ==
    [type |-> type, conflict_score |-> a.conflict_score,
     aggression_score |-> a.aggression_score,
     passive_aggression_score |-> a.passive_aggression_score,
     sentiment |-> a.sentiment.label,
     warning_level |-> WarningLevel(a.conflict_score),
     color |-> Color(WarningLevel(a.conflict_score)),
     quick_tip |-> get_quick_tip(a.conflict_score, a)]

\* the reply of POST /score to a blank text
SafeResponse ==
    [type |-> "blank", conflict_score |-> Zero, aggression_score |-> Zero,
     passive_aggression_score |-> Zero, sentiment |-> "neutral",
     warning_level |-> "safe", color |-> "", quick_tip |-> ""]

\* POST /score: the dependency get_conflict_analyzer, then the handler
realtime_score(a, h, w, o, now, text) ==
    IF a = "None" THEN Raise("HTTP 503: Conflict analyzer not initialized", NoOut, 0)
    ELSE IF IsBlank(text) THEN Ok(SafeResponse, 0)
    ELSE LET r == analyze_turn(h, w, o, now, text, "user")
         IN  IF r.ok THEN Ok(ScoreResponse("score", r.val), r.calls)
             ELSE Raise(r.err, NoOut, r.calls)

RealtimeScore ==
    /\ last' = Call("realtime_score", ml, input,
                    realtime_score(app, ml, weights, oracle, clock, input))
    /\ Frame

\* /ws/{client_id}: the dependency get_conflict_analyzer_ws, then one message;
\* an exception of the analysis is caught, printed, and ends the connection
\* with nothing sent; a blank text sends nothing
websocket_message(a, h, w, o, now, text) ==
    IF a = "None" THEN Raise("RuntimeError: Conflict analyzer not initialized", NoOut, 0)
    ELSE IF IsBlank(text) THEN Ok([type |-> "nothing"], 0)
    ELSE LET r == analyze_turn(h, w, o, now, text, "user")
         IN  IF r.ok THEN Ok(ScoreResponse("score_update", r.val), r.calls)
             ELSE Raise(r.err, NoOut, r.calls)

WebsocketMessage ==
    /\ last' = Call("websocket", ml, input,
                    websocket_message(app, ml, weights, oracle, clock, input))
    /\ Frame

\* the answers of the two models to the text under analysis
OraclePairs ==
    {<<s, e>> \in SentimentOutputs \X EmotionOutputs :
        \/ SentimentWellFormed(s) /\ s.score > 70
        \/ e = ERaw("list", << Item("dict", "anger", 100, "ok") >>)}

Oracles == {[sent |-> <<p[1]>>, emo |-> <<p[2]>>] : p \in OraclePairs}

\* the service is up: initialize has returned and lifespan has published
InitTurn ==
    /\ ml = AllHandles
    /\ initpc = "done"
    /\ app = "set"
    /\ weights = CodeWeights
    /\ attempt = 0
    /\ conns = NoConns
    /\ store = NoStore
    /\ clock = 0
    /\ rng = 0
    /\ input \in Texts
    /\ oracle \in Oracles
    /\ turns = <<>>
    /\ last = NoCall
    /\ log = NoCall

NextTurn ==
    \/ AnalyzeSentiment
    \/ AnalyzeEmotions
    \/ DetectPassiveAggression
    \/ DetectCognitiveBiases
    \/ AnalyzeTurn

SpecTurn == InitTurn /\ [][NextTurn]_vars

\* the service from construction on: initialize may be under way, may have
\* failed half way, or may never have been called when a text is scored
InitTexts == {<<>>, <<" ", "\n">>, TextBias, TextPassive}

InitInit ==
    /\ ml = NoHandles
    /\ initpc = "new"
    /\ app = "None"
    /\ weights = CodeWeights
    /\ attempt = 0
    /\ conns = NoConns
    /\ store = NoStore
    /\ clock = 0
    /\ rng = 0
    /\ input \in InitTexts
    /\ oracle \in Oracles
    /\ turns = <<>>
    /\ last = NoCall
    /\ log = NoCall

NextInit ==
    \/ LoadNext
    \/ LoadRetry
    \/ LoadFails
    \/ Publish
    \/ AnalyzeTurn
    \/ RealtimeScore
    \/ WebsocketMessage

SpecInit == InitInit /\ [][NextInit]_vars

\* a call of the loader returns or raises, and the sleep between attempts ends
SpecInitFair == SpecInit /\ WF_vars(LoadNext \/ LoadRetry \/ LoadFails)

----------------------------------------------------------------------------
(* Claims about one turn *)

InUnit(x) == RLe(Zero, x) /\ RLe(x, Unit)

\* the documented severity weights
DocumentedWeight(sev) ==
    CASE sev = "low" -> R(1, 5) [] sev = "medium" -> R(1, 2)
      [] sev = "high" -> R(4, 5) [] sev = "critical" -> R(1, 1)

DocumentedBiasTerm(tags) ==
    IF Len(tags) = 0 THEN Zero
    ELSE RDivInt(RSum([i \in 1..Len(tags) |-> DocumentedWeight(tags[i].severity)]),
                 Len(tags))

DocumentedScore(t) ==
    RMin(Unit,
         RAdd(RAdd(RMul(R(35, 100), t.aggression_score),
                   RMul(R(25, 100), t.passive_aggression_score)),
              RAdd(RMul(R(20, 100),
                        RMul(RSub(Unit, t.sentiment.polarity), R(1, 2))),
                   RMul(R(20, 100), DocumentedBiasTerm(t.bias_tags)))))

\* C1: whenever analyze_turn returns a turn whose aggression and passive
\* aggression are in [0,1] and whose polarity is -1 or +1, its conflict_score
\* is in [0,1] and equals min(1, 0.35*aggression + 0.25*passive_aggression
\* + 0.20*(1 - polarity)/2 + 0.20*mean severity weight of the bias tags)
C1_ConflictScoreFormula ==
    (last.op = "analyze_turn" /\ last.kind = "ok") =>
        ((/\ InUnit(last.out.aggression_score)
          /\ InUnit(last.out.passive_aggression_score)
          /\ last.out.sentiment.polarity \in {R(1, 1), R(-1, 1)})
         => (/\ InUnit(last.out.conflict_score)
             /\ last.out.conflict_score = DocumentedScore(last.out)))

C1_Witness ==
    /\ last.op = "analyze_turn"
    /\ last.kind = "ok"
    /\ Len(last.out.bias_tags) >= 2
    /\ last.out.sentiment.polarity = R(-1, 1)
    /\ RLt(Zero, last.out.passive_aggression_score)
    /\ RLt(Zero, last.out.aggression_score)
    /\ RLt(R(1, 2), last.out.conflict_score)

TypesAndSeverities(tags) ==
    [i \in 1..Len(tags) |-> <<tags[i].type, tags[i].severity>>]

ReportedLowAngerHighDisgust ==
    LET e == analyze_emotions("loaded", EmotionAnswer(oracle, last.text)).val
    IN  /\ RLt(e.aggression_score, R(3, 10))
        /\ \E i \in 1..Len(e.emotions) :
              e.emotions[i].label = "disgust" /\ RLt(R(3, 10), e.emotions[i].score)

\* C3 as stated: on "Sure, whatever. Fine." the sure, whatever and fine rows
\* (rows 1, 2 and 5 of the pattern table) match and the returned score is exactly 1.0
C3_ScoreIsOne ==
    (last.op = "detect_passive_aggression" /\ last.text = TextPassive
        /\ last.kind = "ok") =>
        /\ {1, 2, 5} \subseteq MatchedPatterns(last.text)
        /\ last.out.score = Unit

\* C3 amended: on that text only the whatever (0.4) and fine (0.3) rows match,
\* "sure" not being at the end of the text; the returned score is 0.7, and 0.9
\* when the emotion model reports aggression < 0.3 and disgust > 0.3
C3_ScoreIsSevenOrNineTenths ==
    (last.op = "detect_passive_aggression" /\ last.text = TextPassive
        /\ last.kind = "ok") =>
        /\ MatchedPatterns(last.text) = {2, 5}
        /\ last.out.score = IF ReportedLowAngerHighDisgust THEN R(9, 10) ELSE R(7, 10)

C3_Witness ==
    /\ last.op = "detect_passive_aggression"
    /\ last.text = TextPassive
    /\ last.kind = "ok"
    /\ last.out.score = R(9, 10)

\* C10: an oracle output that cannot be normalised makes the adapter fail;
\* no value is returned for it
C10_MalformedOutputRaises ==
    /\ (last.op = "analyze_emotions"
            /\ ~EmotionWellFormed(EmotionAnswer(oracle, last.text)))
        => last.kind = "error"
    /\ (last.op = "analyze_sentiment"
            /\ ~SentimentWellFormed(SentimentAnswer(oracle, last.text)))
        => last.kind = "error"

----------------------------------------------------------------------------
(* Claims about the service not being ready *)

ServiceUnavailable ==
    {NotInitialized, "HTTP 503: Conflict analyzer not initialized",
     "RuntimeError: Conflict analyzer not initialized"}

ScoringOps == {"analyze_turn", "realtime_score", "websocket"}

\* C9 as stated: with the oracle not ready, a scoring operation ends in an
\* error of the service-unavailable kind and returns nothing
C9_ServiceUnavailable ==
    (last.op \in ScoringOps /\ ~Ready(last.h)) =>
        /\ last.kind = "error"
        /\ last.err \in ServiceUnavailable
        /\ last.out = NoOut

\* a model that is loaded answered, and the adapter rejected the answer
\* before the missing handle was reached
LoadedModelRejected ==
    /\ last.op = "analyze_turn"
    /\ last.h.sentiment_analyzer = "loaded"
    /\ \/ ~SentimentWellFormed(SentimentAnswer(oracle, last.text))
       \/ /\ last.h.emotion_analyzer = "loaded"
          /\ EmotionAnswer(oracle, last.text).shape = "single"
    /\ last.err \notin ServiceUnavailable

\* C9 amended: with the oracle not ready, a scoring operation ends in an error
\* and returns no turn and no score; the error is of the service-unavailable
\* kind unless the adapter rejected the answer of a model that is loaded
C9_FailsWithoutScore ==
    (last.op \in ScoringOps /\ ~Ready(last.h)) =>
        /\ last.kind = "error"
        /\ last.out = NoOut
        /\ last.err \in ServiceUnavailable \/ LoadedModelRejected

C9_Witness ==
    /\ last.op = "analyze_turn"
    /\ last.h = [sentiment_analyzer |-> "loaded", emotion_analyzer |-> "loaded",
                 nlp |-> "None"]
    /\ last.kind = "error"
    /\ last.err = NotInitialized
    /\ ~IsBlank(last.text)

\* the documented categories in their order, each with its severity
DocumentedCategories ==
    << [type |-> "overgeneralization", severity |-> "medium"],
       [type |-> "mind_reading", severity |-> "medium"],
       [type |-> "catastrophizing", severity |-> "high"],
       [type |-> "personalization", severity |-> "high"],
       [type |-> "gaslighting", severity |-> "critical"] >>

\* the patterns of category k found in the text
FoundPatterns(text, k) ==
    {p \in BiasCategories[k].patterns : HasPhrase(Lower(text), p)}

RECURSIVE TenthsOf(_)
TenthsOf(rows) ==
    IF rows = {} THEN 0
    ELSE LET k == CHOOSE x \in rows : TRUE
         IN  passive_aggressive_patterns[k].w + TenthsOf(rows \ {k})

\* S for a text: the matching weights, 0.1 for "..." or "!!", and 0.2 when the
\* emotion model reports aggression < 0.3 and disgust > 0.3; in tenths
DocumentedTenths(text, lowAngerHighDisgust) ==
    TenthsOf(MatchedPatterns(text))
    + (IF HasLiteral(text, <<".", ".", ".">>) \/ HasLiteral(text, <<"!", "!">>)
       THEN 1 ELSE 0)
    + (IF lowAngerHighDisgust THEN 2 ELSE 0)

\* for every text the rows that match it, and whether it has "..." or "!!"
RowsOfText == [t \in Texts |-> MatchedPatterns(t)]
MarkerOfText ==
    [t \in Texts |-> HasLiteral(t, <<".", ".", ".">>) \/ HasLiteral(t, <<"!", "!">>)]

DocumentedPassiveScore(text, lowAngerHighDisgust) ==
    IF DocumentedTenths(text, lowAngerHighDisgust) >= 10 THEN Unit
    ELSE R(DocumentedTenths(text, lowAngerHighDisgust), 10)

\* C19: the passive-aggression score of a text is min(1.0, S), S being the sum
\* of the weights of all matching patterns plus 0.1 for a sarcasm marker plus
\* 0.2 for low anger with high disgust; it lies in [0, 1], and no text with
\* one matching pattern less and the same markers and emotions scores higher
C19_PassiveAggressionScore ==
    (last.op = "detect_passive_aggression" /\ last.kind = "ok") =>
        /\ last.out.score = DocumentedPassiveScore(last.text, ReportedLowAngerHighDisgust)
        /\ RLe(Zero, last.out.score) /\ RLe(last.out.score, Unit)
        /\ \A t \in Texts :
              (/\ RowsOfText[t] \subseteq RowsOfText[last.text]
               /\ Cardinality(RowsOfText[t]) + 1 = Cardinality(RowsOfText[last.text])
               /\ MarkerOfText[t] = MarkerOfText[last.text])
              => RLe(detect_passive_aggression(t,
                         analyze_emotions("loaded", EmotionAnswer(oracle, last.text)).val),
                     last.out.score)

\* three patterns match, their weights add up to 1.2 and the score is capped
C19_Witness ==
    /\ last.op = "detect_passive_aggression"
    /\ last.kind = "ok"
    /\ MatchedPatterns(last.text) = {2, 3, 5}
    /\ DocumentedTenths(last.text, ReportedLowAngerHighDisgust) > 10
    /\ last.out.score = Unit

\* C11: a blank or whitespace-only text given to POST /score or to the
\* websocket, once the entry point has its analyzer, is answered without a
\* call to the models and with a score: conflict_score 0.0 and
\* warning_level "safe"
C11_BlankTextGetsSafeScore ==
    (last.op \in {"realtime_score", "websocket"} /\ last.kind = "ok"
        /\ IsBlank(last.text)) =>
        /\ last.calls = 0
        /\ last.out.type # "nothing"
        /\ last.out.conflict_score = Zero
        /\ last.out.warning_level = "safe"

----------------------------------------------------------------------------
(* ConflictAnalyzer: the conversation *)

\* the largest r in lo..hi with r * r <= x
RECURSIVE ISqrtIn(_, _, _)
ISqrtIn(x, lo, hi) ==
    IF lo >= hi THEN lo
    ELSE LET mid == (lo + hi + 1) \div 2
         IN  IF mid * mid <= x THEN ISqrtIn(x, mid, hi) ELSE ISqrtIn(x, lo, mid - 1)

\* floor(q * 10^6) of a rational 0 <= q <= 1
Millionths(q) ==
    LET a == q.n * 1000
    IN  (a \div q.d) * 1000 + ((a % q.d) * 1000) \div q.d

\* variant: the deviation is taken with n - 1 in the denominator (ddof=1)
np_std_sample(scores) ==
    LET m == RMean(scores)
        v == RDivInt(RSum([i \in 1..Len(scores) |->
                              RMul(RSub(scores[i], m), RSub(scores[i], m))]),
                     Len(scores) - 1)
    IN  R(ISqrtIn(Millionths(v), 0, 1000), 1000)

\* np.std: the population standard deviation, to three decimals (rounded
\* down; the square root is the one step that is not exact here)
np_std(scores) ==
    LET m == RMean(scores)
        v == RSub(RMean([i \in 1..Len(scores) |-> RMul(scores[i], scores[i])]),
                  RMul(m, m))
    IN  R(ISqrtIn(Millionths(v), 0, 1000), 1000)

\* np.polyfit(np.arange(n), scores, 1)[0]: the least-squares slope
polyfit_slope(scores) ==
    LET n   == Len(scores)
        sx  == (n * (n - 1)) \div 2
        sxx == ((n - 1) * n * (2 * n - 1)) \div 6
        sy  == RSum(scores)
        sxy == RSum([i \in 1..n |-> RMul(R(i - 1, 1), scores[i])])
    IN  RDivInt(RSub(RMul(R(n, 1), sxy), RMul(R(sx, 1), sy)), n * sxx - sx * sx)

\* conflict_scores[-3:]
LastThree(scores) ==
    SubSeq(scores, IF Len(scores) > 3 THEN Len(scores) - 2 ELSE 1, Len(scores))

\* variant: the probability is not capped at 1.0
predict_escalation_uncapped(scores) ==
    IF Len(scores) < 2 THEN (IF scores = <<>> THEN Zero ELSE scores[1])
    ELSE RAdd(RAdd(RMul(R(4, 10), RMean(LastThree(scores))),
                   RMul(R(4, 10), RMax(Zero, RMul(polyfit_slope(scores), R(10, 1))))),
              RMul(R(2, 10), IF Len(scores) > 2 THEN np_std(scores) ELSE Zero))

\* ConflictAnalyzer._predict_escalation
predict_escalation(scores) ==
    IF Len(scores) < 2 THEN (IF scores = <<>> THEN Zero ELSE scores[1])
    ELSE LET slope      == polyfit_slope(scores)
             recent_avg == RMean(LastThree(scores))
             volatility == IF Len(scores) > 2 THEN np_std(scores) ELSE Zero
         IN  RMin(RAdd(RAdd(RMul(R(4, 10), recent_avg),
                            RMul(R(4, 10), RMax(Zero, RMul(slope, R(10, 1))))),
                       RMul(R(2, 10), volatility)),
                  Unit)

\* variant: the thresholds are 0.5 and -0.5
calculate_trend_wide(scores) ==
    IF Len(scores) < 2 THEN "stable"
    ELSE IF RLt(R(5, 10), polyfit_slope(scores)) THEN "escalating"
    ELSE IF RLt(polyfit_slope(scores), R(-5, 10)) THEN "de-escalating"
    ELSE "stable"

\* variant: the thresholds themselves count as a change
calculate_trend_inclusive(scores) ==
    IF Len(scores) < 2 THEN "stable"
    ELSE IF RLe(R(5, 100), polyfit_slope(scores)) THEN "escalating"
    ELSE IF RLe(polyfit_slope(scores), R(-5, 100)) THEN "de-escalating"
    ELSE "stable"

\* ConflictAnalyzer._calculate_trend
calculate_trend(scores) ==
    IF Len(scores) < 2 THEN "stable"
    ELSE IF RLt(R(5, 100), polyfit_slope(scores)) THEN "escalating"
    ELSE IF RLt(polyfit_slope(scores), R(-5, 100)) THEN "de-escalating"
    ELSE "stable"

emotion_to_need(emotion) ==
    CASE emotion = "anger" -> "respect, fairness, autonomy"
      [] emotion = "fear" -> "safety, security, predictability"
      [] emotion = "sadness" -> "connection, understanding, support"
      [] emotion = "joy" -> "celebration, appreciation, contribution"
      [] emotion = "disgust" -> "integrity, authenticity, order"
      [] emotion = "surprise" -> "clarity, information, understanding"
      [] OTHER -> "understanding, connection"

EmptyDict == <<>>

\* ConflictAnalyzer._analyze_nvc: asks the emotion model about the text
analyze_nvc(h, o, text) ==
    The({ IF ~e.ok THEN Raise(e.err, EmptyDict, e.calls)
          ELSE Ok([observation |-> text, has_evaluation |-> has_evaluation,
                   emotion |-> e.val.dominant_emotion,
                   likely_need |-> emotion_to_need(e.val.dominant_emotion),
                   nvc_score |-> IF has_evaluation THEN R(3, 10) ELSE R(7, 10)],
                  e.calls)
          : e \in {analyze_emotions(h.emotion_analyzer, EmotionAnswer(o, text))},
            has_evaluation \in
                {\E word \in {"always", "never", "should", "must"} :
                    HasLiteral(Lower(text), <<word>>)} })

Recommendation(priority, category, action) ==
    [priority |-> priority, category |-> category, action |-> action]

HasBias(biases, type) == \E i \in 1..Len(biases) : biases[i].type = type

\* the recommendations appended by one call, in the order of the tests
Recommendations(conflict_score, escalation_prob, biases) ==
    (IF RLt(R(7, 10), conflict_score)
     THEN <<Recommendation("high", "de-escalation", "Take a break")>> ELSE <<>>)
    \o (IF RLt(R(6, 10), escalation_prob)
        THEN <<Recommendation("high", "intervention", "Change communication approach")>>
        ELSE <<>>)
    \o (IF HasBias(biases, "overgeneralization")
        THEN <<Recommendation("medium", "cognitive", "Avoid absolute terms")>> ELSE <<>>)
    \o (IF HasBias(biases, "mind_reading")
        THEN <<Recommendation("medium", "cognitive", "Ask instead of assume")>> ELSE <<>>)
    \o (IF HasBias(biases, "gaslighting")
        THEN <<Recommendation("critical", "safety", "Set boundaries")>> ELSE <<>>)
    \o (IF RLt(conflict_score, R(3, 10))
        THEN <<Recommendation("low", "positive", "Continue constructive dialogue")>>
        ELSE <<>>)

\* variant: the list is kept on the analyzer and each call appends to what
\* the call before left there
generate_recommendations_kept(conflict_score, escalation_prob, biases) ==
    (IF last.op = "analyze_conversation" /\ last.kind = "ok"
     THEN last.out.recommendations ELSE <<>>)
    \o Recommendations(conflict_score, escalation_prob, biases)

\* variant: the three bias rules are an if/elif chain, so only the first
\* bias found is answered
generate_recommendations_chained(conflict_score, escalation_prob, biases) ==
    (IF RLt(R(7, 10), conflict_score)
     THEN <<Recommendation("high", "de-escalation", "Take a break")>> ELSE <<>>)
    \o (IF RLt(R(6, 10), escalation_prob)
        THEN <<Recommendation("high", "intervention", "Change communication approach")>>
        ELSE <<>>)
    \o (IF HasBias(biases, "overgeneralization")
        THEN <<Recommendation("medium", "cognitive", "Avoid absolute terms")>>
        ELSE IF HasBias(biases, "mind_reading")
        THEN <<Recommendation("medium", "cognitive", "Ask instead of assume")>>
        ELSE IF HasBias(biases, "gaslighting")
        THEN <<Recommendation("critical", "safety", "Set boundaries")>>
        ELSE <<>>)
    \o (IF RLt(conflict_score, R(3, 10))
        THEN <<Recommendation("low", "positive", "Continue constructive dialogue")>>
        ELSE <<>>)

\* ConflictAnalyzer._generate_recommendations: a new list at each call
generate_recommendations(conflict_score, escalation_prob, biases) ==
    Recommendations(conflict_score, escalation_prob, biases)

\* ConflictAnalyzer._empty_analysis
empty_analysis ==
    [overall_conflict_score |-> Zero, escalation_probability |-> Zero,
     passive_aggression_index |-> Zero, cognitive_biases |-> <<>>,
     nvc_analysis |-> EmptyDict, recommendations |-> <<>>, trend |-> "stable",
     metrics |-> EmptyDict]

\* variant: a tag already collected from another turn is not added again
RECURSIVE AllBiasesOnce(_)
AllBiasesOnce(ts) ==
    IF ts = <<>> THEN <<>>
    ELSE ts[1].bias_tags
         \o SelectSeq(AllBiasesOnce(Tail(ts)),
                      LAMBDA b : \A j \in 1..Len(ts[1].bias_tags) : ts[1].bias_tags[j] # b)

RECURSIVE AllBiases(_)
AllBiases(ts) == IF ts = <<>> THEN <<>> ELSE ts[1].bias_tags \o AllBiases(Tail(ts))

RECURSIVE MaxOf(_)
MaxOf(scores) ==
    IF Len(scores) = 1 THEN scores[1] ELSE RMax(scores[1], MaxOf(Tail(scores)))

\* the body of analyze_conversation after the test for no turns
ConversationAnalysis(h, o, ts) ==
    The({ IF ~nvc.ok THEN Raise(nvc.err, empty_analysis, nvc.calls)
          ELSE The({ Ok([overall_conflict_score |-> overall_conflict,
                         escalation_probability |-> escalation_prob,
                         passive_aggression_index |->
                             RMean([i \in 1..Len(ts) |-> ts[i].passive_aggression_score]),
                         cognitive_biases |-> all_biases,
                         nvc_analysis |-> nvc.val,
                         recommendations |->
                             generate_recommendations(overall_conflict, escalation_prob,
                                                      all_biases),
                         trend |-> calculate_trend(conflict_scores),
                         metrics |->
                             [avg_aggression |->
                                  RMean([i \in 1..Len(ts) |-> ts[i].aggression_score]),
                              max_conflict |-> MaxOf(conflict_scores),
                              total_biases |-> Len(all_biases)]],
                        nvc.calls)
                     : overall_conflict \in {RMean(conflict_scores)},
                       escalation_prob \in {predict_escalation(conflict_scores)} })
          : conflict_scores \in {[i \in 1..Len(ts) |-> ts[i].conflict_score]},
            all_biases \in {AllBiases(ts)},
            nvc \in {analyze_nvc(h, o, ts[Len(ts)].text)} })

\* variant: no test for an empty sequence; max() of no scores raises
analyze_conversation_unguarded(h, o, ts) ==
    IF ts = <<>> THEN Raise("ValueError: max() arg is an empty sequence", empty_analysis, 0)
    ELSE ConversationAnalysis(h, o, ts)

\* ConflictAnalyzer.analyze_conversation
analyze_conversation(h, o, ts) ==
    IF ts = <<>> THEN Ok(empty_analysis, 0) ELSE ConversationAnalysis(h, o, ts)

----------------------------------------------------------------------------
(* SimulationService *)

\* SimulationService._default_opponent_model
default_opponent_model ==
    [linguistic_style |-> EmptyDict, sentiment_baseline |-> Zero,
     aggression_baseline |-> R(3, 10), passive_aggression_baseline |-> R(2, 10),
     trigger_words |-> <<>>, response_patterns |-> <<>>,
     communication_style |-> "neutral"]

\* features.get(key, 0)
FeatureGet(features, key) == IF key \in DOMAIN features THEN features[key] ELSE 0

\* variant: the constructive rule is tried before the avoidant rule
determine_communication_style_swapped(aggression, passive_aggression, features) ==
    IF RLt(R(6, 10), aggression) THEN "aggressive"
    ELSE IF RLt(R(5, 10), passive_aggression) THEN "passive_aggressive"
    ELSE IF FeatureGet(features, "you_statements")
                > FeatureGet(features, "i_statements") * 2 THEN "aggressive"
    ELSE IF RLt(aggression, R(3, 10)) /\ RLt(passive_aggression, R(3, 10))
         THEN "constructive"
    ELSE IF FeatureGet(features, "question_count") < 1 /\ RLt(aggression, R(3, 10))
         THEN "avoidant"
    ELSE "neutral"

\* SimulationService._determine_communication_style
determine_communication_style(aggression, passive_aggression, features) ==
    IF RLt(R(6, 10), aggression) THEN "aggressive"
    ELSE IF RLt(R(5, 10), passive_aggression) THEN "passive_aggressive"
    ELSE IF FeatureGet(features, "you_statements")
                > FeatureGet(features, "i_statements") * 2 THEN "aggressive"
    ELSE IF FeatureGet(features, "question_count") < 1 /\ RLt(aggression, R(3, 10))
         THEN "avoidant"
    ELSE IF RLt(aggression, R(3, 10)) /\ RLt(passive_aggression, R(3, 10))
         THEN "constructive"
    ELSE "neutral"

\* len(text): the number of characters
RECURSIVE CharLen(_)
CharLen(text) == IF text = <<>> THEN 0 ELSE Len(text[1]) + CharLen(Tail(text))

\* text[:50]: the longest prefix of whole tokens within 50 characters (a
\* token the limit would cut is left out)
RECURSIVE FirstFifty(_, _)
FirstFifty(text, room) ==
    IF text = <<>> \/ Len(text[1]) > room THEN <<>>
    ELSE <<text[1]>> \o FirstFifty(Tail(text), room - Len(text[1]))

FirstFive(s) == SubSeq(s, 1, IF Len(s) > 5 THEN 5 ELSE Len(s))

\* turn.get("conflict_score", 0)
TurnConflictScore(turn) ==
    IF "conflict_score" \in DOMAIN turn THEN turn.conflict_score ELSE Zero

\* variant: a score of 0.6 and a length of 50 count as well
RECURSIVE TriggerPhrasesInclusive(_)
TriggerPhrasesInclusive(ts) ==
    IF ts = <<>> THEN <<>>
    ELSE (IF RLe(R(6, 10), TurnConflictScore(ts[1])) /\ CharLen(ts[1].text) <= 50
          THEN <<ts[1].text>> ELSE <<>>) \o TriggerPhrasesInclusive(Tail(ts))

\* SimulationService._extract_trigger_words
RECURSIVE TriggerPhrases(_)
TriggerPhrases(ts) ==
    IF ts = <<>> THEN <<>>
    ELSE (IF RLt(R(6, 10), TurnConflictScore(ts[1])) /\ CharLen(ts[1].text) < 50
          THEN <<ts[1].text>> ELSE <<>>) \o TriggerPhrases(Tail(ts))

extract_trigger_words(ts) == FirstFive(TriggerPhrases(ts))

\* SimulationService._extract_response_patterns
RECURSIVE ResponsePatterns(_, _)
ResponsePatterns(ts, i) ==
    IF i > Len(ts) THEN <<>>
    ELSE (IF ts[i].speaker = "opponent"
          THEN << [trigger |-> FirstFifty(ts[i - 1].text, 50),
                   response |-> FirstFifty(ts[i].text, 50)] >>
          ELSE <<>>) \o ResponsePatterns(ts, i + 1)

extract_response_patterns(ts) == FirstFive(ResponsePatterns(ts, 2))

\* " ".join(texts)
RECURSIVE JoinTexts(_)
JoinTexts(ts) ==
    IF ts = <<>> THEN <<>>
    ELSE IF Len(ts) = 1 THEN ts[1].text
    ELSE ts[1].text \o <<" ">> \o JoinTexts(Tail(ts))

\* the sentiment of each turn, asked of the model in turn order; the first
\* failure ends the list
RECURSIVE Sentiments(_, _, _)
Sentiments(h, o, ts) ==
    IF ts = <<>> THEN Ok(<<>>, 0)
    ELSE The({ IF ~s.ok THEN Raise(s.err, <<>>, s.calls)
               ELSE IF ~rest.ok THEN Raise(rest.err, <<>>, s.calls + rest.calls)
               ELSE Ok(<<s.val>> \o rest.val, s.calls + rest.calls)
               : s \in {analyze_sentiment(h.sentiment_analyzer,
                                          SentimentAnswer(o, ts[1].text))},
                 rest \in {Sentiments(h, o, Tail(ts))} })

\* the body of build_opponent_model after the test for no turns
OpponentModelOf(h, o, ts) ==
    The({ IF ~f.ok THEN Raise(f.err, default_opponent_model, f.calls)
          ELSE IF ~sents.ok
               THEN Raise(sents.err, default_opponent_model, f.calls + sents.calls)
          ELSE Ok([linguistic_style |-> f.val,
                   sentiment_baseline |->
                       RMean([i \in 1..Len(ts) |->
                                 RMul(sents.val[i].score,
                                      IF sents.val[i].label = "POSITIVE" THEN Unit
                                      ELSE R(-1, 1))]),
                   aggression_baseline |-> avg_aggression,
                   passive_aggression_baseline |-> avg_passive_agg,
                   trigger_words |-> extract_trigger_words(ts),
                   response_patterns |-> extract_response_patterns(ts),
                   communication_style |->
                       determine_communication_style(avg_aggression, avg_passive_agg,
                                                     f.val)],
                  f.calls + sents.calls)
          : f \in {extract_linguistic_features(h.nlp, JoinTexts(ts))},
            sents \in {Sentiments(h, o, ts)},
            avg_aggression \in {RMean([i \in 1..Len(ts) |-> ts[i].aggression_score])},
            avg_passive_agg \in
                {RMean([i \in 1..Len(ts) |-> ts[i].passive_aggression_score])} })

\* variant: no test for an empty history; the models are asked and the mean
\* of no sentiments divides by zero
build_opponent_model_unguarded(h, o, ts) ==
    IF ts = <<>>
    THEN (IF h.nlp = "None" THEN Raise(NotInitialized, default_opponent_model, 0)
          ELSE Raise("ZeroDivisionError: division by zero", default_opponent_model, 1))
    ELSE OpponentModelOf(h, o, ts)

\* SimulationService.build_opponent_model
build_opponent_model(h, o, ts) ==
    IF ts = <<>> THEN Ok(default_opponent_model, 0) ELSE OpponentModelOf(h, o, ts)

\* SimulationService._get_response_templates: the template table, each
\* template as its tokens
templates(style, mood) ==
    CASE style = "aggressive" /\ mood = "calm" ->
          << <<"That", "'", "s", " ", "not", " ", "what", " ", "I", " ", "meant", " ", "at", " ", "all", ".">>,
             <<"You", "'", "re", " ", "twisting", " ", "my", " ", "words", ".">>,
             <<"Here", " ", "we", " ", "go", " ", "again", ".">> >>
      [] style = "aggressive" /\ mood = "triggered" ->
          << <<"Are", " ", "you", " ", "serious", " ", "right", " ", "now", "?">>,
             <<"You", " ", "always", " ", "do", " ", "this", "!">>,
             <<"I", "'", "m", " ", "done", " ", "with", " ", "this", " ", "conversation", ".">>,
             <<"This", " ", "is", " ", "ridiculous", ".">> >>
      [] style = "passive_aggressive" /\ mood = "calm" ->
          << <<"Sure", ",", " ", "whatever", " ", "you", " ", "say", ".">>,
             <<"If", " ", "that", "'", "s", " ", "how", " ", "you", " ", "feel", ".", ".", ".">>,
             <<"I", " ", "guess", " ", "that", "'", "s", " ", "fine", ".">>,
             <<"Do", " ", "what", " ", "you", " ", "want", ".">> >>
      [] style = "passive_aggressive" /\ mood = "triggered" ->
          << <<"Well", ",", " ", "excuse", " ", "me", " ", "for", " ", "existing", ".">>,
             <<"Sorry", " ", "for", " ", "caring", ".">>,
             <<"My", " ", "bad", " ", "for", " ", "trying", ".">>,
             <<"Fine", ".", " ", "You", " ", "win", ".">> >>
      [] style = "avoidant" /\ mood = "calm" ->
          << <<"Can", " ", "we", " ", "talk", " ", "about", " ", "this", " ", "later", "?">>,
             <<"I", " ", "don", "'", "t", " ", "want", " ", "to", " ", "get", " ", "into", " ", "this", " ", "now", ".">>,
             <<"Let", "'", "s", " ", "just", " ", "move", " ", "on", ".">> >>
      [] style = "avoidant" /\ mood = "triggered" ->
          << <<"I", " ", "can", "'", "t", " ", "deal", " ", "with", " ", "this", " ", "right", " ", "now", ".">>,
             <<"I", " ", "need", " ", "space", ".">>,
             <<"This", " ", "is", " ", "too", " ", "much", ".">> >>
      [] style = "constructive" /\ mood = "calm" ->
          << <<"I", " ", "hear", " ", "what", " ", "you", "'", "re", " ", "saying", ".">>,
             <<"Let", " ", "me", " ", "think", " ", "about", " ", "that", ".">>,
             <<"Can", " ", "we", " ", "find", " ", "a", " ", "middle", " ", "ground", "?">> >>
      [] style = "constructive" /\ mood = "triggered" ->
          << <<"I", " ", "feel", " ", "hurt", " ", "by", " ", "that", ".">>,
             <<"This", " ", "is", " ", "important", " ", "to", " ", "me", ".">>,
             <<"I", " ", "need", " ", "you", " ", "to", " ", "understand", " ", "my", " ", "perspective", ".">> >>
      [] style = "neutral" /\ mood = "calm" ->
          << <<"Okay", ".">>,
             <<"I", " ", "understand", ".">>,
             <<"Let", "'", "s", " ", "figure", " ", "this", " ", "out", ".">> >>
      [] style = "neutral" /\ mood = "triggered" ->
          << <<"I", " ", "disagree", " ", "with", " ", "that", ".">>,
             <<"That", "'", "s", " ", "not", " ", "fair", ".">>,
             <<"I", " ", "don", "'", "t", " ", "think", " ", "that", "'", "s", " ", "right", ".">> >>

\* templates.get(style, templates["neutral"])[mood]
get_response_templates(style, aggression, is_triggering) ==
    LET mood == IF is_triggering THEN "triggered" ELSE "calm"
    IN  IF style \in {"aggressive", "passive_aggressive", "avoidant", "constructive"}
        THEN templates(style, mood) ELSE templates("neutral", mood)

\* The random module: a generator whose state x is set by seed(x); a draw is
\* a function of the state and moves it on
RngStates == 0..3
Advance(x) == (x + 1) % 4

\* variant: the draw is taken from a generator seeded by the clock
random_index_by_clock(x, n) == ((x + clock) % n) + 1

\* random.choice(seq), as the index it picks among n
random_index(x, n) == (x % n) + 1

\* random.random() > 0.5
random_above_half(x) == x >= 2

\* opponent_model.get(key, default)
ModelGet(opponent_model, key, default) ==
    IF key \in DOMAIN opponent_model THEN opponent_model[key] ELSE default

\* variant: a draft at exactly 0.5 is triggering as well
is_triggering_inclusive(draft_analysis) == RLe(R(5, 10), draft_analysis.conflict_score)

\* is_triggering = draft_analysis["conflict_score"] > 0.5
is_triggering(draft_analysis) == RLt(R(5, 10), draft_analysis.conflict_score)

\* SimulationService._generate_response_text; rng is the generator's state
\* after the draws made
generate_response_text(x, draft_analysis, opponent_model) ==
    The({ IF tw = <<>> THEN [text |-> ts[random_index(x, Len(ts))], rng |-> Advance(x)]
          ELSE IF ~random_above_half(Advance(x))
               THEN [text |-> ts[random_index(x, Len(ts))], rng |-> Advance(Advance(x))]
          ELSE [text |-> ts[random_index(x, Len(ts))] \o <<" ">>
                         \o tw[random_index(Advance(Advance(x)), Len(tw))],
                rng |-> Advance(Advance(Advance(x)))]
          : ts \in {get_response_templates(
                        ModelGet(opponent_model, "communication_style", "neutral"),
                        ModelGet(opponent_model, "aggression_baseline", R(3, 10)),
                        is_triggering(draft_analysis))},
            tw \in {ModelGet(opponent_model, "trigger_words", <<>>)} })

\* variant: 0.7 is high risk and 0.5 is moderate already
generate_simulation_recommendation_inclusive(escalation) ==
    IF RLe(R(7, 10), escalation) THEN "High escalation risk"
    ELSE IF RLe(R(5, 10), escalation) THEN "Moderate escalation likely"
    ELSE "This approach seems balanced"

\* SimulationService._generate_simulation_recommendation
generate_simulation_recommendation(escalation) ==
    IF RLt(R(7, 10), escalation) THEN "High escalation risk"
    ELSE IF RLt(R(5, 10), escalation) THEN "Moderate escalation likely"
    ELSE "This approach seems balanced"

NoSimulation == [none |-> TRUE]

\* a result together with the generator's state when the call ends
WithRng(r, x) ==
    [ok |-> r.ok, err |-> r.err, val |-> r.val, calls |-> r.calls, rng |-> x]

\* variant: the simulated turn is put before the draft
updated_history_swapped(conversation_history, draft_analysis, simulated_turn) ==
    conversation_history \o <<simulated_turn, draft_analysis>>

\* updated_history = conversation_history + [draft_analysis, simulated_turn]
updated_history(conversation_history, draft_analysis, simulated_turn) ==
    conversation_history \o <<draft_analysis, simulated_turn>>

\* SimulationService.simulate_response
simulate_response(h, w, o, now, x, user_draft, opponent_model, conversation_history) ==
  The({ IF ~d.ok THEN WithRng(Raise(d.err, NoSimulation, d.calls), x)
        ELSE
  The({ The({ IF ~st.ok
              THEN WithRng(Raise(st.err, NoSimulation, d.calls + st.calls), g.rng)
              ELSE
  The({ IF ~ua.ok
        THEN WithRng(Raise(ua.err, NoSimulation, d.calls + st.calls + ua.calls), g.rng)
        ELSE IF ~base.ok
        THEN WithRng(Raise(base.err, NoSimulation,
                           d.calls + st.calls + ua.calls + base.calls), g.rng)
        ELSE WithRng(
                 Ok([simulated_response |-> g.text,
                     response_analysis |-> st.val,
                     predicted_escalation |-> ua.val.escalation_probability,
                     conflict_score_change |->
                         RSub(ua.val.overall_conflict_score,
                              IF conversation_history # <<>>
                              THEN base.val.overall_conflict_score ELSE Zero),
                     recommendation |->
                         generate_simulation_recommendation(
                             ua.val.escalation_probability)],
                    d.calls + st.calls + ua.calls + base.calls),
                 g.rng)
        : ua \in {analyze_conversation(
                       h, o, updated_history(conversation_history, d.val, st.val))},
          base \in {analyze_conversation(h, o, conversation_history)} })
              : st \in {analyze_turn(h, w, o, now, g.text, "opponent")} })
        : g \in {generate_response_text(x, d.val, opponent_model)} })
        : d \in {analyze_turn(h, w, o, now, user_draft, "user")} })

----------------------------------------------------------------------------
(* A session: turns are analysed and kept, the conversation is analysed, an
   opponent model is built and answers are simulated *)

CallWith(op, h, text, r, args) ==
    [op |-> op, h |-> h, kind |-> IF r.ok THEN "ok" ELSE "error", err |-> r.err,
     calls |-> r.calls, text |-> text, out |-> IF r.ok THEN r.val ELSE NoOut,
     args |-> args]

\* log is the call before when the call c repeats it: same operation, same
\* arguments
Remember(c) ==
    IF last.op = c.op /\ last.args = c.args THEN last ELSE NoCall

TextOkay == <<"Okay", ".">>
\* what is said in a session, and by whom
TurnInputs == {<<TextBias, "opponent">>, <<TextOkay, "user">>}
Drafts == {TextBias, TextPassive}

OpponentTurns(ts) == SelectSeq(ts, LAMBDA t : t.speaker = "opponent")

\* datetime.utcnow() moves on
Tick ==
    /\ clock < MaxClock
    /\ clock' = clock + 1
    /\ UNCHANGED <<ml, initpc, app, weights, attempt, conns, store,
                   rng, oracle, input, turns, last, log>>

\* random.seed(s)
Seed ==
    /\ \E s \in 0..MaxSeed : rng' = s
    /\ UNCHANGED <<ml, initpc, app, weights, attempt, conns, store,
                   clock, oracle, input, turns, last, log>>

\* a turn is analysed and the analysis is added to the history
AddTurn ==
    /\ Len(turns) < MaxTurns
    /\ \E said \in TurnInputs :
          \E r \in {analyze_turn(ml, weights, oracle, clock, said[1], said[2])} :
             \E c \in {CallWith("add_turn", ml, said[1], r, [speaker |-> said[2]])} :
                /\ last' = c
                /\ log' = Remember(c)
                /\ turns' = IF r.ok THEN Append(turns, r.val) ELSE turns
    /\ UNCHANGED <<ml, initpc, app, weights, attempt, conns, store,
                   clock, rng, oracle, input>>

AnalyzeConversation ==
    /\ \E ts \in {<<>>, turns} :
          \E r \in {analyze_conversation(ml, oracle, ts)} :
             \E c \in {CallWith("analyze_conversation", ml, <<>>, r, [turns |-> ts])} :
                /\ last' = c
                /\ log' = Remember(c)
    /\ UNCHANGED <<ml, initpc, app, weights, attempt, conns, store,
                   clock, rng, oracle, input, turns>>

BuildOpponentModel ==
    /\ \E r \in {build_opponent_model(ml, oracle, OpponentTurns(turns))} :
          \E c \in {CallWith("build_opponent_model", ml, <<>>, r,
                             [turns |-> OpponentTurns(turns)])} :
             /\ last' = c
             /\ log' = Remember(c)
    /\ UNCHANGED <<ml, initpc, app, weights, attempt, conns, store,
                   clock, rng, oracle, input, turns>>

\* the opponent models a caller has at hand: the default one and the one
\* built from the opponent's turns
OpponentModels(h, o, ts) ==
    {default_opponent_model}
    \cup UNION { IF built.ok THEN {built.val} ELSE {}
                 : built \in {build_opponent_model(h, o, OpponentTurns(ts))} }

\* variant: the simulated turn is appended to the caller's list
history_after_append(conversation_history, r) ==
    IF r.ok THEN Append(conversation_history, r.val.response_analysis)
    ELSE conversation_history

\* the caller's list after simulate_response returned r:
\* conversation_history + [draft_analysis, simulated_turn] builds a new list,
\* and nothing else is done with the argument
history_after(conversation_history, r) == conversation_history

SimulateResponse ==
    /\ \E m \in OpponentModels(ml, oracle, turns) :
          \E r \in {simulate_response(ml, weights, oracle, clock, rng, input, m, turns)} :
             \E c \in {CallWith("simulate_response", ml, input, r,
                                [seed |-> rng, user_draft |-> input,
                                 opponent_model |-> m,
                                 conversation_history |-> turns])} :
                /\ last' = c
                /\ log' = Remember(c)
                /\ rng' = r.rng
                /\ turns' = history_after(turns, r)
    /\ UNCHANGED <<ml, initpc, app, weights, attempt, conns, store, clock, oracle, input>>

\* models that answer every text within the contract, differently for texts
\* of different keys
AngryOracle ==
    [sent |-> << SRaw("list", TRUE, "NEGATIVE", 80, "ok") >>,
     emo  |-> << ERaw("list", << Item("dict", "anger", 100, "ok") >>) >>]

MixedOracle ==
    [sent |-> << SRaw("list", TRUE, "POSITIVE", 99, "ok"),
                 SRaw("dict", TRUE, "NEGATIVE", 60, "ok") >>,
     emo  |-> << ERaw("list", << Item("dict", "anger", 10, "ok"),
                                 Item("dict", "disgust", 50, "ok"),
                                 Item("dict", "joy", 40, "ok") >>),
                 ERaw("list", << Item("dict", "joy", 10, "ok"),
                                 Item("dict", "anger", 90, "ok") >>) >>]

SessionOracles == {AngryOracle, MixedOracle}

Init ==
    /\ ml \in {AllHandles, NoHandles}
    /\ initpc = IF ml = AllHandles THEN "done" ELSE "new"
    /\ app = IF ml = AllHandles THEN "set" ELSE "None"
    /\ weights = CodeWeights
    /\ attempt = 0
    /\ conns = NoConns
    /\ store = NoStore
    /\ clock = 0
    /\ rng = 0
    /\ input \in Drafts
    /\ oracle \in SessionOracles
    /\ turns = <<>>
    /\ last = NoCall
    /\ log = NoCall

Next ==
    \/ Tick
    \/ Seed
    \/ AddTurn
    \/ AnalyzeConversation
    \/ BuildOpponentModel
    \/ SimulateResponse

Spec == Init /\ [][Next]_vars

----------------------------------------------------------------------------
(* Conversations with given conflict scores *)

\* the given scores, in tenths
ScoreGrid == 1..5

\* a stored turn with the conflict score s tenths
ScoredTurn(s) ==
    [speaker |-> "user", text |-> TextOkay, timestamp |-> 0,
     sentiment |-> NoSentiment, emotions |-> NoEmotions, aggression_score |-> Zero,
     passive_aggression_score |-> Zero, conflict_score |-> R(s, 10),
     bias_tags |-> <<>>, linguistic_features |-> NoFeatures]

\* the next turn of the conversation, its conflict score given
AppendScored ==
    /\ Len(turns) < MaxScored
    /\ \E s \in ScoreGrid :
          /\ turns # <<>> =>
                LET diff == RSub(R(s, 10), turns[Len(turns)].conflict_score)
                IN  Abs(diff.n) * 10 <= MaxStep * diff.d
          /\ turns' = Append(turns, ScoredTurn(s))
    /\ UNCHANGED <<ml, initpc, app, weights, attempt, conns, store,
                   clock, rng, oracle, input, last, log>>

InitConv ==
    /\ ml = AllHandles
    /\ initpc = "done"
    /\ app = "set"
    /\ weights = CodeWeights
    /\ attempt = 0
    /\ conns = NoConns
    /\ store = NoStore
    /\ clock = 0
    /\ rng = 0
    /\ input = <<>>
    /\ oracle = MixedOracle
    /\ turns = <<>>
    /\ last = NoCall
    /\ log = NoCall

NextConv ==
    \/ AppendScored
    \/ AnalyzeConversation

SpecConv == InitConv /\ [][NextConv]_vars

----------------------------------------------------------------------------
(* Conversations of given turns *)

\* the turns a caller hands over: scores from 0 to 1, tags of every severity,
\* one without the severity key, one with a severity outside the map and one
\* with the severity None (written "None")
GivenKinds ==
    << [cs |-> R(0, 1), ag |-> R(0, 1), pa |-> R(0, 1), pol |-> R(1, 1),
        tags |-> <<>>],
       [cs |-> R(1, 20), ag |-> R(1, 10), pa |-> R(1, 2), pol |-> R(1, 1),
        tags |-> << Tag("overgeneralization", "", "medium") >>],
       [cs |-> R(3, 10), ag |-> R(3, 10), pa |-> R(0, 1), pol |-> R(-1, 1),
        tags |-> << [type |-> "mind_reading", description |-> ""],
                    Tag("catastrophizing", "", "high") >>],
       [cs |-> R(6, 10), ag |-> R(1, 2), pa |-> R(1, 5), pol |-> R(-1, 1),
        tags |-> << Tag("overgeneralization", "", "severe") >>],
       [cs |-> R(7, 10), ag |-> R(1, 1), pa |-> R(1, 1), pol |-> R(-1, 1),
        tags |-> << Tag("gaslighting", "", "critical"),
                    Tag("personalization", "", "low") >>],
       [cs |-> R(1, 1), ag |-> R(1, 1), pa |-> R(1, 1), pol |-> R(-1, 1),
        tags |-> << Tag("mind_reading", "", "None") >>] >>

GivenTurn(k) ==
    [speaker |-> "user", text |-> TextOkay, timestamp |-> 0,
     sentiment |-> [label |-> IF GivenKinds[k].pol = Unit THEN "POSITIVE" ELSE "NEGATIVE",
                    score |-> Unit, polarity |-> GivenKinds[k].pol],
     emotions |-> NoEmotions, aggression_score |-> GivenKinds[k].ag,
     passive_aggression_score |-> GivenKinds[k].pa,
     conflict_score |-> GivenKinds[k].cs,
     bias_tags |-> GivenKinds[k].tags, linguistic_features |-> NoFeatures]

GivenConversations ==
    UNION {[1..n -> {GivenTurn(k) : k \in 1..Len(GivenKinds)}] : n \in 0..MaxGiven}

\* _calculate_turn_conflict_score applied to the parts of one given turn
CalculateTurnConflictScore ==
    /\ \E i \in 1..Len(turns) :
          last' = CallWith("calculate_turn_conflict_score", ml, <<>>,
                           Ok([score |->
                                   calculate_turn_conflict_score(
                                       weights, turns[i].aggression_score,
                                       turns[i].passive_aggression_score,
                                       turns[i].sentiment.polarity,
                                       turns[i].bias_tags)], 0),
                           [turn |-> turns[i]])
    /\ log' = NoCall
    /\ UNCHANGED <<ml, initpc, app, weights, attempt, conns, store,
                   clock, rng, oracle, input, turns>>

InitGiven ==
    /\ ml = AllHandles
    /\ initpc = "done"
    /\ app = "set"
    /\ weights = CodeWeights
    /\ attempt = 0
    /\ conns = NoConns
    /\ store = NoStore
    /\ clock = 0
    /\ rng = 0
    /\ input = <<>>
    /\ oracle = MixedOracle
    /\ turns \in GivenConversations
    /\ last = NoCall
    /\ log = NoCall

NextGiven ==
    \/ CalculateTurnConflictScore
    \/ AnalyzeConversation

SpecGiven == InitGiven /\ [][NextGiven]_vars

----------------------------------------------------------------------------
(* The style rules on given baselines and features *)

\* baselines on both sides of every threshold of the style rules, in tenths
StyleLevels == {R(k, 10) : k \in {0, 2, 3, 5, 6, 7}}

\* feature dictionaries: the counts of you, I and question marks, and one
\* dictionary without any key
StyleFeatures ==
    {[you_statements |-> y, i_statements |-> i, question_count |-> q, word_count |-> 0]
        : y \in 0..MaxCount, i \in 0..1, q \in 0..1}
    \cup {EmptyDict}

\* _determine_communication_style applied to given baselines and features
DetermineCommunicationStyle ==
    /\ \E a \in StyleLevels, p \in StyleLevels, f \in StyleFeatures :
          last' = CallWith("determine_communication_style", ml, <<>>,
                           Ok([style |-> determine_communication_style(a, p, f)], 0),
                           [aggression |-> a, passive_aggression |-> p, features |-> f])
    /\ log' = NoCall
    /\ UNCHANGED <<ml, initpc, app, weights, attempt, conns, store,
                   clock, rng, oracle, input, turns>>

InitStyle ==
    /\ ml = AllHandles
    /\ initpc = "done"
    /\ app = "set"
    /\ weights = CodeWeights
    /\ attempt = 0
    /\ conns = NoConns
    /\ store = NoStore
    /\ clock = 0
    /\ rng = 0
    /\ input = <<>>
    /\ oracle = MixedOracle
    /\ turns = <<>>
    /\ last = NoCall
    /\ log = NoCall

NextStyle == DetermineCommunicationStyle

SpecStyle == InitStyle /\ [][NextStyle]_vars

----------------------------------------------------------------------------
(* The opponent model of given opponent turns *)

\* texts of 49 and of 50 characters
Text49 == TextBias \o <<" ", "no">>
Text50 == TextBias \o <<" ", "now">>

\* the opponent turns a caller hands over: a short text above 0.6, a short
\* text at exactly 0.6, and texts of 50 and of 49 characters above 0.6
HistoryKinds ==
    << [cs |-> R(7, 10), text |-> TextOkay],
       [cs |-> R(6, 10), text |-> TextPassive],
       [cs |-> R(9, 10), text |-> Text50],
       [cs |-> R(8, 10), text |-> Text49] >>

HistoryTurn(k) ==
    [speaker |-> "opponent", text |-> HistoryKinds[k].text,
     aggression_score |-> HistoryKinds[k].cs,
     passive_aggression_score |-> Zero,
     conflict_score |-> HistoryKinds[k].cs]

OpponentHistories ==
    UNION {[1..n -> {HistoryTurn(k) : k \in 1..Len(HistoryKinds)}] : n \in 0..MaxHistory}

InitModel ==
    /\ ml = AllHandles
    /\ initpc = "done"
    /\ app = "set"
    /\ weights = CodeWeights
    /\ attempt = 0
    /\ conns = NoConns
    /\ store = NoStore
    /\ clock = 0
    /\ rng = 0
    /\ input = <<>>
    /\ oracle = MixedOracle
    /\ turns \in OpponentHistories
    /\ last = NoCall
    /\ log = NoCall

NextModel == BuildOpponentModel

SpecModel == InitModel /\ [][NextModel]_vars

----------------------------------------------------------------------------
(* Simulations with given opponent models and histories *)

\* a model that answers NEGATIVE and anger 0.5 for every text
EvenOracle ==
    [sent |-> << SRaw("list", TRUE, "NEGATIVE", 90, "ok") >>,
     emo  |-> << ERaw("list", << Item("dict", "anger", 50, "ok"),
                                 Item("dict", "joy", 50, "ok") >>) >>]

TextWant == <<"do", " ", "what", " ", "you", " ", "want">>

\* drafts above, at and below a conflict score of 0.5 under EvenOracle
SimDrafts == {TextBias, TextWant, TextOkay}

\* opponent models a caller hands over: every style of the template table
\* and one outside it with trigger words, one without trigger words, and one
\* without any key
GivenModels ==
    {[communication_style |-> st, aggression_baseline |-> R(3, 10),
      trigger_words |-> <<TextOkay, Text49>>]
        : st \in {"aggressive", "passive_aggressive", "avoidant", "constructive",
                  "neutral", "assertive"}}
    \cup {[communication_style |-> "aggressive", aggression_baseline |-> R(3, 10),
            trigger_words |-> <<>>],
           EmptyDict}

\* histories of turns with conflict scores 0 and 1
SimHistories == UNION {[1..n -> {GivenTurn(k) : k \in {1, 6}}] : n \in 0..MaxSim}

\* simulate_response called with a given opponent model
SimulateGiven ==
    /\ \E m \in GivenModels :
          \E r \in {simulate_response(ml, weights, oracle, clock, rng, input, m, turns)} :
             /\ last' = CallWith("simulate_response", ml, input, r,
                                 [seed |-> rng, user_draft |-> input,
                                  opponent_model |-> m,
                                  conversation_history |-> turns])
             /\ rng' = r.rng
             /\ turns' = history_after(turns, r)
    /\ log' = NoCall
    /\ UNCHANGED <<ml, initpc, app, weights, attempt, conns, store, clock, oracle, input>>

\* escalation probabilities on both sides of 0.5 and 0.7, in tenths
EscalationLevels == {R(k, 10) : k \in 0..10}

\* _generate_simulation_recommendation applied to a given updated analysis
GenerateSimulationRecommendation ==
    /\ \E e \in EscalationLevels :
          last' = CallWith("generate_simulation_recommendation", ml, <<>>,
                           Ok([recommendation |-> generate_simulation_recommendation(e)], 0),
                           [escalation_probability |-> e])
    /\ log' = NoCall
    /\ UNCHANGED <<ml, initpc, app, weights, attempt, conns, store,
                   clock, rng, oracle, input, turns>>

InitSim ==
    /\ ml = AllHandles
    /\ initpc = "done"
    /\ app = "set"
    /\ weights = CodeWeights
    /\ attempt = 0
    /\ conns = NoConns
    /\ store = NoStore
    /\ clock = 0
    /\ rng \in RngStates
    /\ input \in SimDrafts
    /\ oracle = EvenOracle
    /\ turns \in SimHistories
    /\ last = NoCall
    /\ log = NoCall

NextSim ==
    \/ SimulateGiven
    \/ GenerateSimulationRecommendation

SpecSim == InitSim /\ [][NextSim]_vars

----------------------------------------------------------------------------
(* Websocket connections: ConnectionManager and the handlers of /ws/{client_id} *)

\* A socket is "new" (not opened), "accepted" (accept() done, handler about
\* to register it), "open" (registered, handler waiting for a text), "closing"
\* (closed by the client, handler not yet woken) or "ended" (handler returned).

\* manager.disconnect(client_id)
disconnect(c) == [conns.active EXCEPT ![c] = 0]

\* websocket_endpoint up to the await in manager.connect: websocket.accept()
WsAccept ==
    /\ \E s \in Sockets, c \in ClientIds :
          /\ conns.sock[s].state = "new"
          /\ conns' = [conns EXCEPT !.sock[s] = [client |-> c, state |-> "accepted"]]
    /\ UNCHANGED <<ml, initpc, app, weights, attempt, store, clock, rng, oracle, input,
                   turns, last, log>>

\* manager.connect after the await: self.active_connections[client_id] = websocket
WsRegister ==
    /\ \E s \in Sockets :
          /\ conns.sock[s].state = "accepted"
          /\ conns' = [conns EXCEPT !.sock[s].state = "open",
                                    !.active[conns.sock[s].client] = s]
    /\ UNCHANGED <<ml, initpc, app, weights, attempt, store, clock, rng, oracle, input,
                   turns, last, log>>

\* one turn of the loop: a text is received on socket s and analysed, and the
\* response goes to manager.send_message(client_id, response), which sends
\* it on the socket registered for client_id, if any; sending on a socket the
\* client has closed raises, and so does a failed analysis: the handler
\* calls manager.disconnect(client_id) and returns
WsMessage ==
    /\ \E s \in Sockets :
          /\ conns.sock[s].state = "open"
          /\ \E r \in {websocket_message(app, ml, weights, oracle, clock, input)} :
             \E c \in {conns.sock[s].client} :
             \E on \in {conns.active[c]} :
                /\ last' = Call("websocket", ml, input, r)
                /\ conns' =
                      IF ~r.ok
                      THEN [conns EXCEPT !.sock[s].state = "ended", !.active = disconnect(c)]
                      ELSE IF r.val.type = "nothing" \/ on = 0 THEN conns
                      ELSE IF conns.sock[on].state = "closing"
                      THEN [conns EXCEPT !.sock[s].state = "ended", !.active = disconnect(c)]
                      ELSE [conns EXCEPT !.delivered = @ \cup {[from |-> s, on |-> on]}]
    /\ UNCHANGED <<ml, initpc, app, weights, attempt, store, clock, rng, oracle, input,
                   turns, log>>

\* the client closes socket s
WsClientCloses ==
    /\ \E s \in Sockets :
          /\ conns.sock[s].state = "open"
          /\ conns' = [conns EXCEPT !.sock[s].state = "closing"]
    /\ UNCHANGED <<ml, initpc, app, weights, attempt, store, clock, rng, oracle, input,
                   turns, last, log>>

\* receive_text raises WebSocketDisconnect in the handler of s:
\* manager.disconnect(client_id), and the handler returns
WsDisconnect ==
    /\ \E s \in Sockets :
          /\ conns.sock[s].state = "closing"
          /\ conns' = [conns EXCEPT !.sock[s].state = "ended",
                                    !.active = disconnect(conns.sock[s].client)]
    /\ UNCHANGED <<ml, initpc, app, weights, attempt, store, clock, rng, oracle, input,
                   turns, last, log>>

InitWs ==
    /\ ml = AllHandles
    /\ initpc = "done"
    /\ app = "set"
    /\ weights = CodeWeights
    /\ attempt = 0
    /\ conns = NoConns
    /\ store = NoStore
    /\ clock = 0
    /\ rng = 0
    /\ input \in {TextBias, <<" ">>}
    /\ oracle = MixedOracle
    /\ turns = <<>>
    /\ last = NoCall
    /\ log = NoCall

NextWs ==
    \/ WsAccept
    \/ WsRegister
    \/ WsMessage
    \/ WsClientCloses
    \/ WsDisconnect

SpecWs == InitWs /\ [][NextWs]_vars

----------------------------------------------------------------------------
(* A stored session: the routes add_turn, simulate and opponent-profile *)

\* the DialogueTurn row add_turn creates from an analysis
TurnRow(turn_count, a) ==
    [turn_id |-> turn_count, speaker |-> a.speaker, text |-> a.text,
     sentiment |-> a.sentiment.label, sentiment_score |-> a.sentiment.score,
     aggression_score |-> a.aggression_score,
     passive_aggression_score |-> a.passive_aggression_score,
     conflict_score |-> a.conflict_score, bias_tags |-> a.bias_tags]

\* the rows of a query in the orders the database may return them
RowOrders(rows) ==
    {[i \in 1..Len(rows) |-> rows[f[i]]] :
        f \in {g \in [1..Len(rows) -> 1..Len(rows)] :
                  \A i, j \in 1..Len(rows) : i # j => g[i] # g[j]}}

\* .order_by(DialogueTurn.turn_id): rows of equal turn_id in any order
OrderedTurns(rows) ==
    {p \in RowOrders(rows) :
        \A i \in 1..(Len(p) - 1) : p[i].turn_id <= p[i + 1].turn_id}

\* add_turn, first part: the session's turns are counted
CountTurns ==
    /\ \E q \in Requests :
          /\ store.reqs[q].pc = "idle"
          /\ Len(store.turns)
                + Cardinality({p \in Requests : store.reqs[p].pc = "counted"}) < MaxStored
          /\ store' = [store EXCEPT !.reqs[q] =
                           [pc |-> "counted", turn_count |-> Len(store.turns)]]
    /\ UNCHANGED <<ml, initpc, app, weights, attempt, conns, clock, rng, oracle, input,
                   turns, last, log>>

\* add_turn, second part: the turn is analysed and the row with
\* turn_id = turn_count is added and committed; a failed analysis ends the
\* request with nothing stored
InsertTurn ==
    /\ \E q \in Requests, said \in TurnInputs :
          /\ store.reqs[q].pc = "counted"
          /\ \E r \in {analyze_turn(ml, weights, oracle, clock, said[1], said[2])} :
                /\ last' = CallWith("add_turn_route", ml, said[1], r,
                                    [speaker |-> said[2],
                                     turn_id |-> store.reqs[q].turn_count])
                /\ store' = [store EXCEPT
                                !.reqs[q] = [pc |-> "idle", turn_count |-> 0],
                                !.turns = IF r.ok
                                          THEN Append(@, TurnRow(store.reqs[q].turn_count,
                                                                 r.val))
                                          ELSE @]
    /\ log' = NoCall
    /\ UNCHANGED <<ml, initpc, app, weights, attempt, conns, clock, rng, oracle, input,
                   turns>>

\* variant: the records of the opponent's turns carry the conflict score
OpponentRecordWithScore(t) ==
    [text |-> t.text, speaker |-> t.speaker, aggression_score |-> t.aggression_score,
     passive_aggression_score |-> t.passive_aggression_score,
     conflict_score |-> t.conflict_score]

\* the record the routes make of a stored turn for build_opponent_model
OpponentRecord(t) ==
    [text |-> t.text, speaker |-> t.speaker, aggression_score |-> t.aggression_score,
     passive_aggression_score |-> t.passive_aggression_score]

OpponentRecords(rows) ==
    [i \in 1..Len(OpponentTurns(rows)) |-> OpponentRecord(OpponentTurns(rows)[i])]

\* the record the simulate route makes of a stored turn for the history
HistoryRecords(rows) ==
    [i \in 1..Len(rows) |->
        [speaker |-> rows[i].speaker, text |-> rows[i].text,
         aggression_score |-> rows[i].aggression_score,
         passive_aggression_score |-> rows[i].passive_aggression_score,
         conflict_score |-> rows[i].conflict_score, bias_tags |-> rows[i].bias_tags]]

\* the OpponentModel row the simulate route stores
ModelRow(m) ==
    [linguistic_style |-> m.linguistic_style, sentiment_baseline |-> m.sentiment_baseline,
     response_patterns |-> m.response_patterns, trigger_words |-> m.trigger_words,
     personality_profile |->
         [communication_style |-> m.communication_style,
          aggression_baseline |-> m.aggression_baseline,
          passive_aggression_baseline |-> m.passive_aggression_baseline]]

\* the opponent model the simulate route makes of a stored row
ModelFromRow(row) ==
    [linguistic_style |-> row.linguistic_style,
     sentiment_baseline |-> row.sentiment_baseline,
     aggression_baseline |->
         ModelGet(row.personality_profile, "aggression_baseline", R(3, 10)),
     passive_aggression_baseline |->
         ModelGet(row.personality_profile, "passive_aggression_baseline", R(2, 10)),
     trigger_words |-> row.trigger_words,
     response_patterns |-> row.response_patterns,
     communication_style |->
         ModelGet(row.personality_profile, "communication_style", "neutral")]

\* variant: the model is built from the stored turns at every call
route_model_rebuilt(h, o, models, rows) ==
    [built |-> TRUE, r |-> build_opponent_model(h, o, OpponentRecords(rows))]

\* simulate route, "get or build opponent model": the first stored row, or a
\* model built from the records of the opponent's turns
route_model(h, o, models, rows) ==
    IF models = <<>>
    THEN [built |-> TRUE, r |-> build_opponent_model(h, o, OpponentRecords(rows))]
    ELSE [built |-> FALSE, r |-> Ok(ModelFromRow(models[1]), 0)]

\* the simulate route on the ordered rows of the session: res is what the
\* simulation returns or raises, models the table of opponent models after it
route_simulate(h, w, o, now, x, user_draft, models, rows) ==
    The({ IF ~mr.r.ok
          THEN [res |-> WithRng(Raise(mr.r.err, NoSimulation, mr.r.calls), x),
                built |-> mr.built, model |-> mr.r.val, models |-> models]
          ELSE [res |-> simulate_response(h, w, o, now, x, user_draft, mr.r.val,
                                          HistoryRecords(rows)),
                built |-> mr.built, model |-> mr.r.val,
                models |-> IF mr.built THEN Append(models, ModelRow(mr.r.val))
                           ELSE models]
          : mr \in {route_model(h, o, models, rows)} })

RouteSimulate ==
    /\ \E rows \in OrderedTurns(store.turns) :
          \E rs \in {route_simulate(ml, weights, oracle, clock, rng, input,
                                    store.models, rows)} :
             /\ last' = CallWith("simulate_route", ml, input, rs.res,
                                 [seed |-> rng, user_draft |-> input,
                                  opponent_model |-> rs.model, built |-> rs.built,
                                  conversation_history |-> HistoryRecords(rows)])
             /\ store' = [store EXCEPT !.models = rs.models]
             /\ rng' = rs.res.rng
    /\ log' = NoCall
    /\ UNCHANGED <<ml, initpc, app, weights, attempt, conns, clock, oracle, input, turns>>

\* the profile the opponent-profile route makes of a stored row
ProfileFromRow(row) ==
    [linguistic_style |-> row.linguistic_style,
     sentiment_baseline |-> row.sentiment_baseline,
     communication_style |-> ModelGet(row.personality_profile, "communication_style", "None"),
     aggression_baseline |-> ModelGet(row.personality_profile, "aggression_baseline", "None"),
     passive_aggression_baseline |->
         ModelGet(row.personality_profile, "passive_aggression_baseline", "None"),
     trigger_words |-> row.trigger_words]

\* the opponent-profile route: the stored row, or a model built on the fly
\* from the opponent's rows, which the query returns in any order
get_opponent_profile(h, o, models, rows) ==
    IF models # <<>> THEN Ok(ProfileFromRow(models[1]), 0)
    ELSE IF rows = <<>> THEN Raise("HTTP 404: No opponent data found", NoOut, 0)
    ELSE build_opponent_model(h, o, OpponentRecords(rows))

RouteOpponentProfile ==
    /\ \E rows \in RowOrders(OpponentTurns(store.turns)) :
          last' = CallWith("opponent_profile_route", ml, <<>>,
                           get_opponent_profile(ml, oracle, store.models, rows),
                           [stored |-> store.models # <<>>])
    /\ log' = NoCall
    /\ UNCHANGED <<ml, initpc, app, weights, attempt, conns, store, clock, rng, oracle,
                   input, turns>>

InitDb ==
    /\ ml = AllHandles
    /\ initpc = "done"
    /\ app = "set"
    /\ weights = CodeWeights
    /\ attempt = 0
    /\ conns = NoConns
    /\ store = NoStore
    /\ clock = 0
    /\ rng \in RngStates
    /\ input \in Drafts
    /\ oracle = MixedOracle
    /\ turns = <<>>
    /\ last = NoCall
    /\ log = NoCall

NextDb ==
    \/ CountTurns
    \/ InsertTurn
    \/ RouteSimulate
    \/ RouteOpponentProfile

SpecDb == InitDb /\ [][NextDb]_vars

----------------------------------------------------------------------------
(* Claims about conversations and simulation *)

ScoresOf(ts) == [i \in 1..Len(ts) |-> ts[i].conflict_score]

Rising == <<R(1, 10), R(2, 10), R(3, 10), R(4, 10), R(5, 10)>>
Flat == <<R(3, 10), R(3, 10), R(3, 10), R(3, 10), R(3, 10)>>

\* C4: for the conflict scores [0.1,0.2,0.3,0.4,0.5] analyze_conversation
\* yields a positive slope and the trend "escalating"; for five times 0.3 it
\* yields the trend "stable" and the escalation probability 0.12, and the
\* escalation probability of the first is strictly greater than that
C4_RisingEscalatesFlatIsStable ==
    (last.op = "analyze_conversation" /\ last.kind = "ok") =>
        /\ ScoresOf(last.args.turns) = Rising =>
              /\ RLt(Zero, polyfit_slope(ScoresOf(last.args.turns)))
              /\ last.out.trend = "escalating"
              /\ RLt(R(12, 100), last.out.escalation_probability)
        /\ ScoresOf(last.args.turns) = Flat =>
              /\ last.out.trend = "stable"
              /\ last.out.escalation_probability = R(12, 100)

C4_Witness ==
    /\ last.op = "analyze_conversation"
    /\ last.kind = "ok"
    /\ ScoresOf(last.args.turns) = Rising
    /\ last.out.trend = "escalating"
    /\ RLt(R(58, 100), last.out.escalation_probability)

\* C5: analyze_conversation on an empty turn sequence returns, without
\* raising and without a call to the models, the neutral result: the three
\* scores 0, the trend "stable", no biases and no recommendations
C5_EmptyConversationIsNeutral ==
    (last.op = "analyze_conversation" /\ last.args.turns = <<>>) =>
        /\ last.kind = "ok"
        /\ last.calls = 0
        /\ last.out.overall_conflict_score = Zero
        /\ last.out.escalation_probability = Zero
        /\ last.out.passive_aggression_index = Zero
        /\ last.out.trend = "stable"
        /\ last.out.cognitive_biases = <<>>
        /\ last.out.recommendations = <<>>

C5_Witness ==
    /\ last.op = "analyze_conversation"
    /\ last.args.turns = <<>>
    /\ last.kind = "ok"
    /\ ~Ready(last.h)

\* C6: a call of analyze_conversation that repeats the call before, with the
\* same turn sequence, returns the same result, whatever was called earlier
\* and whatever the clock and the random source did in between; and a call
\* leaves the turn sequence and the analyzer's weights as they were
C6_AnalysisIsRepeatable ==
    /\ [](last.op = "analyze_conversation" /\ log.op = "analyze_conversation"
            => (log.args = last.args => log.kind = last.kind /\ log.out = last.out))
    /\ [][last'.op = "analyze_conversation" /\ last' # last
            => turns' = turns /\ weights' = weights]_vars

C6_Witness ==
    /\ last.op = "analyze_conversation"
    /\ log.op = "analyze_conversation"
    /\ log.args = last.args
    /\ last.kind = "ok"
    /\ last.args.turns # <<>>
    /\ last.out.recommendations # <<>>
    /\ rng # 0

\* C7: two runs of simulate_response from the same seed, with the same
\* draft, opponent model and history, end alike and produce the same
\* simulated_response and the same predicted_escalation
C7_SameSeedSameSimulation ==
    (last.op = "simulate_response" /\ log.op = "simulate_response"
        /\ log.args = last.args) =>
        /\ log.kind = last.kind
        /\ last.kind = "ok" =>
              /\ log.out.simulated_response = last.out.simulated_response
              /\ log.out.predicted_escalation = last.out.predicted_escalation

C7_Witness ==
    /\ last.op = "simulate_response"
    /\ log.op = "simulate_response"
    /\ log.args = last.args
    /\ last.kind = "ok"
    /\ last.args.opponent_model.trigger_words # <<>>
    /\ log.out.response_analysis.timestamp # last.out.response_analysis.timestamp
    /\ log.out.simulated_response = last.out.simulated_response

\* C8: build_opponent_model on an empty history returns, without a call to
\* the models, the default model: aggression_baseline 0.3,
\* passive_aggression_baseline 0.2, sentiment_baseline 0, no trigger_words,
\* no response_patterns, communication_style "neutral"
C8_EmptyHistoryGivesDefaultModel ==
    (last.op = "build_opponent_model" /\ last.args.turns = <<>>) =>
        /\ last.kind = "ok"
        /\ last.calls = 0
        /\ last.out.aggression_baseline = R(3, 10)
        /\ last.out.passive_aggression_baseline = R(2, 10)
        /\ last.out.sentiment_baseline = Zero
        /\ last.out.trigger_words = <<>>
        /\ last.out.response_patterns = <<>>
        /\ last.out.communication_style = "neutral"

C8_Witness ==
    /\ last.op = "build_opponent_model"
    /\ last.args.turns = <<>>
    /\ last.kind = "ok"
    /\ turns # <<>>

\* C14: simulate_response leaves the history and the opponent model passed
\* by the caller as they were: the history changes only when a turn is
\* added; after a simulation it is the one passed, and the opponent model
\* passed is still what the builder gives for it (or the default); a
\* simulation repeated on the same history is given a history that holds
\* no simulated turn of the one before
C14_SimulationLeavesArguments ==
    /\ [](last.op = "simulate_response" =>
            /\ last.args.conversation_history = turns
            /\ last.args.opponent_model \in OpponentModels(last.h, oracle, turns)
            /\ (log.op = "simulate_response" /\ log.kind = "ok") =>
                  /\ Len(last.args.conversation_history)
                        = Len(log.args.conversation_history)
                  /\ \A i \in 1..Len(last.args.conversation_history) :
                        last.args.conversation_history[i] # log.out.response_analysis)
    /\ [][turns' # turns => last'.op = "add_turn"]_vars

C14_Witness ==
    /\ last.op = "simulate_response"
    /\ log.op = "simulate_response"
    /\ log.kind = "ok"
    /\ last.kind = "ok"
    /\ turns # <<>>
    /\ last.args.opponent_model # default_opponent_model
    /\ log.out.response_analysis.speaker = turns[1].speaker

----------------------------------------------------------------------------
(* Claims about given turns *)

KnownSeverities == {"low", "medium", "high", "critical"}

\* the documented weight of a tag: that of its severity, and 0.5 when the
\* severity is missing or not a known one
DocumentedTagWeight(b) ==
    IF "severity" \in DOMAIN b /\ b.severity \in KnownSeverities
    THEN DocumentedWeight(b.severity) ELSE R(1, 2)

DocumentedTagMean(tags) ==
    IF tags = <<>> THEN Zero
    ELSE RDivInt(RSum([i \in 1..Len(tags) |-> DocumentedTagWeight(tags[i])]), Len(tags))

\* C12: the conflict score of a turn is computed without error for tags of
\* any severity, and its bias term is 0.20 times the mean of the tags'
\* weights, a tag weighing 0.2, 0.5, 0.8 or 1.0 for low, medium, high or
\* critical and 0.5 when its severity is missing or none of these
C12_UnknownSeverityWeighsHalf ==
    last.op = "calculate_turn_conflict_score" =>
        /\ last.kind = "ok"
        /\ last.out.score =
              RMin(Unit,
                   RAdd(RAdd(RMul(R(35, 100), last.args.turn.aggression_score),
                             RMul(R(25, 100), last.args.turn.passive_aggression_score)),
                        RAdd(RMul(R(20, 100),
                                  RDivInt(RSub(Unit, last.args.turn.sentiment.polarity), 2)),
                             RMul(R(20, 100),
                                  DocumentedTagMean(last.args.turn.bias_tags)))))

\* a tag without the severity key beside one of severity high: the mean is
\* (0.5 + 0.8) / 2
C12_Witness ==
    /\ last.op = "calculate_turn_conflict_score"
    /\ last.kind = "ok"
    /\ \E i \in 1..Len(last.args.turn.bias_tags) :
          "severity" \notin DOMAIN last.args.turn.bias_tags[i]
    /\ last.out.score = R(435, 1000)

Trends == {"escalating", "de-escalating", "stable"}

\* C13: for a non-empty sequence of turns whose conflict, aggression and
\* passive-aggression scores are in [0,1], analyze_conversation returns
\* overall_conflict_score, escalation_probability and
\* passive_aggression_index in [0,1] and a trend that is escalating,
\* de-escalating or stable
C13_AnalysisInUnitRange ==
    (last.op = "analyze_conversation" /\ last.args.turns # <<>>
        /\ \A i \in 1..Len(last.args.turns) :
              /\ InUnit(last.args.turns[i].conflict_score)
              /\ InUnit(last.args.turns[i].aggression_score)
              /\ InUnit(last.args.turns[i].passive_aggression_score)) =>
        /\ last.kind = "ok"
        /\ InUnit(last.out.overall_conflict_score)
        /\ InUnit(last.out.escalation_probability)
        /\ InUnit(last.out.passive_aggression_index)
        /\ last.out.trend \in Trends

\* a steep rise: the sum of the three terms exceeds 1 and is capped
C13_Witness ==
    /\ last.op = "analyze_conversation"
    /\ last.kind = "ok"
    /\ Len(last.args.turns) = 4
    /\ last.out.trend = "escalating"
    /\ last.out.escalation_probability = Unit
    /\ RLt(last.out.overall_conflict_score, R(1, 2))
    /\ RLt(Zero, last.out.passive_aggression_index)

\* the documented escalation formula, written out from its definition: the
\* slope as covariance over variance of the turn index, the deviation with
\* the denominator n - ddof and to three decimals (rounded down)
DocumentedSlope(scores) ==
    LET n    == Len(scores)
        xbar == R(n - 1, 2)
        ybar == RDivInt(RSum(scores), n)
    IN  The({ R(cov.n * var.d, cov.d * var.n)
              : cov \in {RSum([i \in 1..n |->
                                  RMul(RSub(R(i - 1, 1), xbar), RSub(scores[i], ybar))])},
                var \in {RSum([i \in 1..n |->
                                  RMul(RSub(R(i - 1, 1), xbar), RSub(R(i - 1, 1), xbar))])} })

DocumentedDeviation(scores, ddof) ==
    LET n    == Len(scores)
        ybar == RDivInt(RSum(scores), n)
        var  == RDivInt(RSum([i \in 1..n |->
                                 RMul(RSub(scores[i], ybar), RSub(scores[i], ybar))]),
                        n - ddof)
    IN  The({ R(CHOOSE k \in 0..1000 : k * k <= m /\ (k + 1) * (k + 1) > m, 1000)
              : m \in {Millionths(var)} })

DocumentedEscalation(scores, ddof) ==
    IF scores = <<>> THEN Zero
    ELSE IF Len(scores) = 1 THEN scores[1]
    ELSE LET n      == Len(scores)
             recent == SubSeq(scores, IF n > 3 THEN n - 2 ELSE 1, n)
             sum    == RAdd(RMul(R(2, 5), RDivInt(RSum(recent), Len(recent))),
                            RAdd(RMul(R(2, 5),
                                      RMax(Zero, RMul(R(10, 1), DocumentedSlope(scores)))),
                                 RMul(R(1, 5),
                                      IF n > 2 THEN DocumentedDeviation(scores, ddof)
                                      ELSE Zero)))
         IN  RMax(Zero, RMin(Unit, sum))

\* C15, as stated: escalation_probability is 0 for no scores, the score for
\* one turn, and otherwise clamp(0.4*recent_avg + 0.4*max(0, 10*slope)
\* + 0.2*volatility, 0, 1) with volatility the sample standard deviation
\* (denominator n - 1) of all scores, 0 for two turns or fewer
C15_EscalationWithSampleDeviation ==
    (last.op = "analyze_conversation" /\ last.kind = "ok") =>
        last.out.escalation_probability
            = DocumentedEscalation(ScoresOf(last.args.turns), 1)

\* C15, amended: the same with volatility the population standard deviation
\* (denominator n) of all scores
C15_EscalationWithPopulationDeviation ==
    (last.op = "analyze_conversation" /\ last.kind = "ok") =>
        last.out.escalation_probability
            = DocumentedEscalation(ScoresOf(last.args.turns), 0)

\* four turns, so that the recent average is not the overall mean, a
\* deviation above 0 and a sum below the cap
C15_Witness ==
    /\ last.op = "analyze_conversation"
    /\ last.kind = "ok"
    /\ Len(last.args.turns) = 4
    /\ RLt(Zero, DocumentedDeviation(ScoresOf(last.args.turns), 0))
    /\ RLt(Zero, DocumentedSlope(ScoresOf(last.args.turns)))
    /\ RLt(last.out.escalation_probability, Unit)
    /\ RMean(LastThree(ScoresOf(last.args.turns))) # last.out.overall_conflict_score

\* C16: the trend is "stable" for fewer than 2 turns; otherwise it is
\* "escalating" exactly when the least-squares slope is above 0.05,
\* "de-escalating" exactly when it is below -0.05, and "stable" for every
\* slope from -0.05 to 0.05, both included
C16_TrendBySlope ==
    (last.op = "analyze_conversation" /\ last.kind = "ok") =>
        IF Len(last.args.turns) < 2 THEN last.out.trend = "stable"
        ELSE /\ last.out.trend = "escalating"
                  <=> RLt(R(1, 20), DocumentedSlope(ScoresOf(last.args.turns)))
             /\ last.out.trend = "de-escalating"
                  <=> RLt(DocumentedSlope(ScoresOf(last.args.turns)), R(-1, 20))
             /\ last.out.trend = "stable"
                  <=> /\ RLe(R(-1, 20), DocumentedSlope(ScoresOf(last.args.turns)))
                      /\ RLe(DocumentedSlope(ScoresOf(last.args.turns)), R(1, 20))

\* three turns whose slope is exactly 0.05
C16_Witness ==
    /\ last.op = "analyze_conversation"
    /\ last.kind = "ok"
    /\ Len(last.args.turns) = 3
    /\ DocumentedSlope(ScoresOf(last.args.turns)) = R(1, 20)
    /\ last.out.trend = "stable"

\* the six documented rules, in their order, for an analysis a
DocumentedRules(a) ==
    << [holds |-> RLt(R(7, 10), a.overall_conflict_score),
        priority |-> "high", category |-> "de-escalation"],
       [holds |-> RLt(R(6, 10), a.escalation_probability),
        priority |-> "high", category |-> "intervention"],
       [holds |-> \E i \in 1..Len(a.cognitive_biases) :
                     a.cognitive_biases[i].type = "overgeneralization",
        priority |-> "medium", category |-> "cognitive"],
       [holds |-> \E i \in 1..Len(a.cognitive_biases) :
                     a.cognitive_biases[i].type = "mind_reading",
        priority |-> "medium", category |-> "cognitive"],
       [holds |-> \E i \in 1..Len(a.cognitive_biases) :
                     a.cognitive_biases[i].type = "gaslighting",
        priority |-> "critical", category |-> "safety"],
       [holds |-> RLt(a.overall_conflict_score, R(3, 10)),
        priority |-> "low", category |-> "positive"] >>

\* C17: the recommendations of an analysis of one or more turns are the
\* entries of the six rules whose conditions hold, one entry per rule, in
\* the order of the rules (conflict > 0.7, escalation > 0.6,
\* overgeneralization, mind_reading, gaslighting, conflict < 0.3); no entry
\* occurs twice, and the de-escalation and positive entries never occur
\* together
C17_RecommendationsFollowRules ==
    (last.op = "analyze_conversation" /\ last.kind = "ok"
        /\ last.args.turns # <<>>) =>
        LET due  == SelectSeq(DocumentedRules(last.out), LAMBDA rule : rule.holds)
            recs == last.out.recommendations
        IN  /\ Len(recs) = Len(due)
            /\ \A i \in 1..Len(recs) :
                  /\ recs[i].priority = due[i].priority
                  /\ recs[i].category = due[i].category
            /\ \A i, j \in 1..Len(recs) : i # j => recs[i] # recs[j]
            /\ ~(\E i, j \in 1..Len(recs) :
                    recs[i].category = "de-escalation" /\ recs[j].category = "positive")

\* five rules hold at once
C17_Witness ==
    /\ last.op = "analyze_conversation"
    /\ last.kind = "ok"
    /\ Len(last.out.recommendations) = 5
    /\ last.out.recommendations[1].category = "de-escalation"
    /\ last.out.recommendations[5].category = "safety"

\* the number of tags on the turns before turn i
RECURSIVE TagsBefore(_, _)
TagsBefore(ts, i) ==
    IF i <= 1 THEN 0 ELSE TagsBefore(ts, i - 1) + Len(ts[i - 1].bias_tags)

\* m is the arithmetic mean of the scores: the deviations from it add up to 0
IsMeanOf(m, scores) ==
    RSum([i \in 1..Len(scores) |-> RSub(scores[i], m)]) = Zero

\* C20: analyze_conversation on a non-empty sequence of turns returns as
\* cognitive_biases the turns' bias_tags one after the other in turn order,
\* equal tags of different turns kept; metrics.total_biases is the length of
\* that list, metrics.max_conflict the largest conflict_score of a turn, and
\* overall_conflict_score and metrics.avg_aggression the means of the turns'
\* conflict_score and aggression_score
C20_AggregatesOfTurns ==
    (last.op = "analyze_conversation" /\ last.kind = "ok" /\ last.args.turns # <<>>) =>
        LET ts == last.args.turns
            a  == last.out
            n  == Len(ts)
        IN  /\ Len(a.cognitive_biases) = TagsBefore(ts, n + 1)
            /\ \A i \in 1..n : \A j \in 1..Len(ts[i].bias_tags) :
                  a.cognitive_biases[TagsBefore(ts, i) + j] = ts[i].bias_tags[j]
            /\ a.metrics.total_biases = Len(a.cognitive_biases)
            /\ \E i \in 1..n : a.metrics.max_conflict = ts[i].conflict_score
            /\ \A i \in 1..n : RLe(ts[i].conflict_score, a.metrics.max_conflict)
            /\ IsMeanOf(a.overall_conflict_score, [i \in 1..n |-> ts[i].conflict_score])
            /\ IsMeanOf(a.metrics.avg_aggression, [i \in 1..n |-> ts[i].aggression_score])

\* the same tag comes from two turns and is listed twice; the largest
\* conflict score is not that of the last turn and exceeds the mean
C20_Witness ==
    /\ last.op = "analyze_conversation"
    /\ last.kind = "ok"
    /\ Len(last.args.turns) = 3
    /\ last.out.metrics.total_biases = 4
    /\ last.out.cognitive_biases[1] = last.out.cognitive_biases[4]
    /\ last.out.metrics.max_conflict = last.args.turns[2].conflict_score
    /\ RLt(last.args.turns[3].conflict_score, last.out.overall_conflict_score)
    /\ RLt(last.out.overall_conflict_score, last.out.metrics.max_conflict)

----------------------------------------------------------------------------
(* Claims about the simulation service on given arguments *)

\* the six style rules in their documented order: condition and style
DocumentedStyleRules(a, p, f) ==
    LET you == IF "you_statements" \in DOMAIN f THEN f.you_statements ELSE 0
        i   == IF "i_statements" \in DOMAIN f THEN f.i_statements ELSE 0
        q   == IF "question_count" \in DOMAIN f THEN f.question_count ELSE 0
    IN  << [holds |-> RLt(R(6, 10), a), style |-> "aggressive"],
           [holds |-> RLt(R(5, 10), p), style |-> "passive_aggressive"],
           [holds |-> you > 2 * i, style |-> "aggressive"],
           [holds |-> q < 1 /\ RLt(a, R(3, 10)), style |-> "avoidant"],
           [holds |-> RLt(a, R(3, 10)) /\ RLt(p, R(3, 10)), style |-> "constructive"],
           [holds |-> TRUE, style |-> "neutral"] >>

\* C21: the communication style is that of the first rule whose condition
\* holds, in the order aggression > 0.6 (aggressive), passive aggression > 0.5
\* (passive_aggressive), you > 2 * I (aggressive), no question and aggression
\* < 0.3 (avoidant), both baselines < 0.3 (constructive), else neutral; every
\* input gets a style, and constructive is returned only with a question
C21_StyleIsFirstMatch ==
    last.op = "determine_communication_style" =>
        LET rules == DocumentedStyleRules(last.args.aggression,
                                          last.args.passive_aggression,
                                          last.args.features)
            first == CHOOSE k \in 1..6 :
                        rules[k].holds /\ \A j \in 1..(k - 1) : ~rules[j].holds
        IN  /\ last.kind = "ok"
            /\ last.out.style = rules[first].style
            /\ last.out.style = "constructive" =>
                  /\ "question_count" \in DOMAIN last.args.features
                  /\ last.args.features.question_count >= 1

\* the avoidant and the constructive rule both hold and avoidant is returned
C21_Witness ==
    /\ last.op = "determine_communication_style"
    /\ DocumentedStyleRules(last.args.aggression, last.args.passive_aggression,
                            last.args.features)[4].holds
    /\ DocumentedStyleRules(last.args.aggression, last.args.passive_aggression,
                            last.args.features)[5].holds
    /\ last.out.style = "avoidant"

\* the turns of a history that count as triggers, as positions
TriggerPositions(ts) ==
    {i \in 1..Len(ts) : RLt(R(6, 10), ts[i].conflict_score) /\ CharLen(ts[i].text) < 50}

\* C22: the trigger_words of the model built from a non-empty history are the
\* texts of the turns with conflict_score > 0.6 and fewer than 50 characters,
\* in their order, cut to the first five: never more than five, and never the
\* text of a turn with score 0.6 or with 50 characters
C22_TriggerWordsAreFirstFive ==
    (last.op = "build_opponent_model" /\ last.kind = "ok" /\ last.args.turns # <<>>) =>
        LET ts == last.args.turns
            tw == last.out.trigger_words
            Q  == TriggerPositions(ts)
        IN  /\ Len(tw) <= 5
            /\ Len(tw) = IF Cardinality(Q) > 5 THEN 5 ELSE Cardinality(Q)
            /\ \A k \in 1..Len(tw) :
                  \E i \in Q : /\ Cardinality({j \in Q : j < i}) = k - 1
                               /\ tw[k] = ts[i].text
            /\ \A k \in 1..Len(tw) : tw[k] # Text50 /\ tw[k] # TextPassive

\* six turns count and the sixth, of another text than the fifth, is cut off
C22_Witness ==
    /\ last.op = "build_opponent_model"
    /\ last.kind = "ok"
    /\ Cardinality(TriggerPositions(last.args.turns)) = 6
    /\ Len(last.out.trigger_words) = 5
    /\ last.args.turns[6].text # last.out.trigger_words[5]

\* the styles that have a template pool of their own
DocumentedStyles ==
    {"aggressive", "passive_aggressive", "avoidant", "constructive", "neutral"}

\* the pool for a model and a draft score: by the model's style, neutral when
\* the style is missing or unknown, and by the mood
DocumentedPool(m, draft_score) ==
    LET style == IF "communication_style" \in DOMAIN m
                    /\ m.communication_style \in DocumentedStyles
                 THEN m.communication_style ELSE "neutral"
        mood  == IF RLt(R(1, 2), draft_score) THEN "triggered" ELSE "calm"
        pool  == templates(style, mood)
    IN  {pool[i] : i \in 1..Len(pool)}

\* the conflict score of the draft of the simulation in last
DraftScore ==
    analyze_turn(last.h, weights, oracle, 0, last.args.user_draft, "user").val.conflict_score

\* C23: the simulated response is one template of the pool chosen by the
\* model's style (neutral for a missing or unknown style) and the mood
\* (triggered exactly when the draft's conflict score is above 0.5), followed
\* by at most one of the model's trigger words, and by none when the model has
\* no trigger words; a missing or unknown style does not make the call fail
C23_ResponseIsTemplate ==
    last.op = "simulate_response" =>
        LET m    == last.args.opponent_model
            tw   == IF "trigger_words" \in DOMAIN m THEN m.trigger_words ELSE <<>>
            pool == DocumentedPool(m, DraftScore)
        IN  /\ last.kind = "ok"
            /\ \/ last.out.simulated_response \in pool
               \/ \E t \in pool : \E k \in 1..Len(tw) :
                     last.out.simulated_response = t \o <<" ">> \o tw[k]
            /\ tw = <<>> => last.out.simulated_response \in pool

\* a draft at exactly 0.5 and a model of unknown style: a calm neutral
\* template with a trigger word appended
C23_Witness ==
    /\ last.op = "simulate_response"
    /\ last.kind = "ok"
    /\ DraftScore = R(1, 2)
    /\ last.args.opponent_model # EmptyDict
    /\ last.args.opponent_model.communication_style = "assertive"
    /\ last.out.simulated_response = <<"I", " ", "understand", ".">> \o <<" ">> \o Text49

\* the conflict scores of the history of the simulation in last, followed by
\* that of the draft and that of the simulated response
ExtendedScores ==
    ScoresOf(last.args.conversation_history)
        \o <<DraftScore, last.out.response_analysis.conflict_score>>

\* C24: predicted_escalation is the escalation probability of the history
\* followed by the draft turn and then the response turn, and
\* conflict_score_change is the mean conflict score of that sequence minus the
\* mean conflict score of the history, or minus 0 for an empty history
C24_EscalationOfExtendedHistory ==
    (last.op = "simulate_response" /\ last.kind = "ok") =>
        LET hist == ScoresOf(last.args.conversation_history)
            base == IF hist = <<>> THEN Zero ELSE RDivInt(RSum(hist), Len(hist))
        IN  /\ last.out.predicted_escalation = DocumentedEscalation(ExtendedScores, 0)
            /\ IsMeanOf(RAdd(last.out.conflict_score_change, base), ExtendedScores)

\* a history of two turns with a mean above 0, a draft and a response of
\* different scores, and a conflict score that goes down
C24_Witness ==
    /\ last.op = "simulate_response"
    /\ last.kind = "ok"
    /\ Len(last.args.conversation_history) = 2
    /\ DraftScore # last.out.response_analysis.conflict_score
    /\ RLt(last.out.conflict_score_change, Zero)
    /\ RLt(Zero, last.out.predicted_escalation)
    /\ RLt(last.out.predicted_escalation, Unit)

\* the escalation probability a recommendation in last was chosen for
RecommendedFor ==
    IF last.op = "simulate_response" THEN last.out.predicted_escalation
    ELSE last.args.escalation_probability

\* C25: the recommendation is the high-risk warning exactly when the
\* predicted escalation is above 0.7, the moderate caution exactly when it is
\* above 0.5 and at most 0.7, and the balanced text exactly when it is at most
\* 0.5, in a simulation and for any updated analysis handed over
C25_RecommendationByEscalation ==
    (last.op \in {"simulate_response", "generate_simulation_recommendation"}
        /\ last.kind = "ok") =>
        /\ last.out.recommendation = "High escalation risk"
              <=> RLt(R(7, 10), RecommendedFor)
        /\ last.out.recommendation = "Moderate escalation likely"
              <=> (RLt(R(1, 2), RecommendedFor) /\ RLe(RecommendedFor, R(7, 10)))
        /\ last.out.recommendation = "This approach seems balanced"
              <=> RLe(RecommendedFor, R(1, 2))

\* an escalation probability of exactly 0.7 gets the moderate caution
C25_Witness ==
    /\ last.op = "generate_simulation_recommendation"
    /\ last.args.escalation_probability = R(7, 10)
    /\ last.out.recommendation = "Moderate escalation likely"

----------------------------------------------------------------------------
(* Claims about websocket connections and stored sessions *)

\* C26: whatever the order of connects, texts and disconnects, and also with
\* two connections of one client_id, every score_update is sent on the
\* connection its text was received on, and a connection that is registered
\* and open stays registered until its own handler ends
C26_ReplyOnOwnConnection ==
    /\ \A d \in conns.delivered : d.on = d.from
    /\ \A s \in Sockets :
          conns.sock[s].state = "open" => conns.active[conns.sock[s].client] = s

\* C27: after any completed add_turn calls on the session, also ones whose
\* count and insert steps interleave, the stored turn_ids are pairwise
\* distinct and are 0..n-1 for n stored turns, each turn having got the
\* number of turns stored before it
C27_TurnIdsAreDistinct ==
    /\ \A i, j \in 1..Len(store.turns) :
          i # j => store.turns[i].turn_id # store.turns[j].turn_id
    /\ \A i \in 1..Len(store.turns) : store.turns[i].turn_id = i - 1

\* C28: in the simulate route the opponent model of the session is built and
\* stored by the first call that finds none; every later call uses the
\* stored model as it is, also when opponent turns were added since; the
\* stored model never changes and there is never more than one
C28_StoredModelIsReused ==
    /\ [](/\ Len(store.models) <= 1
          /\ (last.op = "simulate_route" /\ store.models # <<>>) =>
                last.args.opponent_model = ModelFromRow(store.models[1]))
    /\ [][/\ store.models # <<>> => store'.models = store.models
          /\ (store.models = <<>> /\ store'.models # <<>>) =>
                /\ last'.op = "simulate_route"
                /\ last'.args.built
                /\ store'.models = <<ModelRow(last'.args.opponent_model)>>
          /\ (last'.op = "simulate_route" /\ last' # last /\ store.models # <<>>) =>
                ~last'.args.built]_vars

\* the model was stored when the session had no opponent turn; one was added
\* since, and the simulation still uses the stored default model
C28_Witness ==
    /\ last.op = "simulate_route"
    /\ last.kind = "ok"
    /\ ~last.args.built
    /\ OpponentTurns(store.turns) # <<>>
    /\ last.args.opponent_model = default_opponent_model

\* the conflict score of the draft of the route call in last
RouteDraftScore ==
    analyze_turn(last.h, weights, oracle, 0, last.args.user_draft, "user").val.conflict_score

\* C29: an opponent model built by the simulate route or by the
\* opponent-profile route has no trigger words, the records of the turns it is
\* built from carrying no conflict score; so has every stored model, and the
\* response simulated with it is exactly one template, nothing appended
C29_RouteModelsHaveNoTriggerWords ==
    /\ \A i \in 1..Len(store.models) : store.models[i].trigger_words = <<>>
    /\ (last.op = "opponent_profile_route" /\ last.kind = "ok") =>
          last.out.trigger_words = <<>>
    /\ (last.op = "simulate_route" /\ last.kind = "ok") =>
          /\ last.args.opponent_model.trigger_words = <<>>
          /\ last.out.simulated_response
                \in DocumentedPool(last.args.opponent_model, RouteDraftScore)

\* the model is built from an opponent turn that is short and scores above
\* 0.6, and the simulation draws a generator state that would append a word
C29_Witness ==
    /\ last.op = "simulate_route"
    /\ last.kind = "ok"
    /\ last.args.built
    /\ \E i \in 1..Len(store.turns) :
          /\ store.turns[i].speaker = "opponent"
          /\ RLt(R(6, 10), store.turns[i].conflict_score)
          /\ CharLen(store.turns[i].text) < 50
    /\ random_above_half(Advance(last.args.seed))
    /\ last.args.opponent_model.trigger_words = <<>>

----------------------------------------------------------------------------
(* Claims about loading the models *)

\* C30: loading terminates: for each model the loader is called at most
\* retries = 3 times, the first call that succeeds sets the handle and ends
\* the attempts, and RuntimeError is raised only when the third attempt has
\* failed; a model is loaded only after the one before it, and initialize
\* never completes with a handle missing
C30_LoadingTerminates ==
    /\ [](/\ attempt <= 3
          /\ initpc \in {"new", "sentiment", "emotion"} => attempt < 3
          /\ initpc = "failed" => attempt = 3
          /\ ml.emotion_analyzer = "loaded" => ml.sentiment_analyzer = "loaded"
          /\ ml.nlp = "loaded" => ml.emotion_analyzer = "loaded"
          /\ initpc = "done" => ml = AllHandles)
    /\ [][/\ ml' # ml => (initpc' # initpc /\ attempt' = 0)
          /\ \A k \in DOMAIN ml : ml[k] = "loaded" => ml'[k] = "loaded"
          /\ initpc \in {"done", "failed"} => (initpc' = initpc /\ ml' = ml)]_vars
    /\ <>(initpc \in {"done", "failed"})

\* two models are loaded and the third attempt to load spaCy has failed
C30_Witness ==
    /\ initpc = "failed"
    /\ attempt = 3
    /\ ml.emotion_analyzer = "loaded"
    /\ ml.nlp = "None"

====
